---- MODULE Spec2Model ----
(***************************************************************************)
(* A model of the injector package: a dependency-injection container with  *)
(* a name registry (dependencies + factories), a type registry, singleton  *)
(* caching of factory results, bare-type-name fallback matching and        *)
(* Invoke/ResolveInto parameter wiring.                                    *)
(*                                                                         *)
(* Strings are sequences of tokens (single characters, or literal chunks   *)
(* of a format string).  Go values are records; every operation of the     *)
(* container is an operator from a registry state to the SET of outcomes   *)
(* the code can produce (map iteration order is unspecified in Go, so the  *)
(* bare-name scans are nondeterministic).                                  *)
(***************************************************************************)
EXTENDS Integers, Sequences, FiniteSets, TLC

VARIABLES
    dependencies,   \* Injector.dependencies : name -> instance
    factories,      \* Injector.factories    : name -> factory function
    typeRegistry,   \* Injector.typeRegistry : reflect.Type -> instance or factory
    nextId,         \* identity of the next object a factory body allocates
    steps,          \* number of API calls made so far
    ret,            \* observation of the last API call (result, error, panic, calls made)
    lastName,       \* history: name -> dependency most recently passed to InjectByName
    lastType,       \* history: type key -> dependency most recently passed to Inject
    sinceName,      \* history: name -> resolutions/invocations since its last registration
    sinceType,      \* history: type key -> resolutions/invocations since its last registration
    calls,          \* history: function -> number of times it has been called
    asked,          \* history: functions that sat in a slot a resolution asked for
    threads,        \* goroutine -> the resolution it is running and where it stands in it
    fatal,          \* the runtime stopped the process (concurrent map access)
    named,          \* a type's display string and what getTypeName made of it
    strict,         \* the validating Injector (New / Inject(name, source) / Get) and its last call
    run             \* the call in progress, statement by statement: its stack of resolutions

vars == <<dependencies, factories, typeRegistry, nextId, steps, ret,
          lastName, lastType, sinceName, sinceType, calls, asked, threads, fatal,
          named, strict, run>>

----------------------------------------------------------------------------
(* Bounds of the model. *)

\* API calls per behaviour of the full container (Spec).
MaxSteps == 3
\* API calls per behaviour of the name path alone (SpecName).
MaxNameSteps == 5
\* API calls per behaviour of the type path alone (SpecType).
MaxTypeSteps == 4
\* API calls per behaviour where factories resolve other entries (SpecNested).
MaxNestedSteps == 4
\* registrations made before the goroutines start (SpecConcurrent).
MaxRegistrations == 2
\* registrations and calls per behaviour where a call runs statement by
\* statement (SpecCallStack).
MaxCallSteps == 3
\* resolutions nested on the goroutine's stack before the runtime stops the
\* process (goroutine stack exceeds its limit).
MaxDepth == 4
\* length of the display strings getTypeName is applied to (SpecGetTypeName).
MaxDisplayLen == 4
\* calls per behaviour of the validating Injector (SpecStrict).
MaxStrictSteps == 4

----------------------------------------------------------------------------
(* Strings (strings package, fmt verbs). *)

IndexesOf(s, c) == {i \in 1..Len(s) : s[i] = c}

\* strings.Contains(s, c) for a one-token separator c
Contains(s, c) == IndexesOf(s, c) # {}

SetMax(S) == CHOOSE m \in S : \A x \in S : x <= m
SetMin(S) == CHOOSE m \in S : \A x \in S : m <= x

RECURSIVE Split(_, _)
\* strings.Split(s, c) for a one-token separator c: the runs between the
\* separators, empty runs included
Split(s, c) ==
    IF IndexesOf(s, c) = {} THEN <<s>>
    ELSE <<SubSeq(s, 1, SetMin(IndexesOf(s, c)) - 1)>>
         \o Split(SubSeq(s, SetMin(IndexesOf(s, c)) + 1, Len(s)), c)

\* parts := strings.Split(s, c); parts[len(parts)-1]
LastPart(s, c) == Split(s, c)[Len(Split(s, c))]

\* strings.TrimPrefix(s, c) for a one-token prefix c
TrimPrefix(s, c) == IF Len(s) > 0 /\ s[1] = c THEN Tail(s) ELSE s

\* strings.Contains(s, sub): sub occurs as a contiguous run of s
HasSub(s, sub) ==
    \E i \in 0..(Len(s) - Len(sub)) : SubSeq(s, i + 1, i + Len(sub)) = sub

IsVerb(tok) == tok \in {"%s", "%v", "%T"}

RECURSIVE Sprintf(_, _)
\* fmt.Sprintf(format, args...): every verb is replaced by the next argument
Sprintf(format, args) ==
    IF format = <<>> THEN <<>>
    ELSE IF IsVerb(Head(format))
         THEN (IF args = <<>> THEN <<"%!(MISSING)">> ELSE Head(args))
              \o Sprintf(Tail(format), IF args = <<>> THEN <<>> ELSE Tail(args))
         ELSE <<Head(format)>> \o Sprintf(Tail(format), args)

\* error values: the nil error, and fmt.Errorf(format, args...)
NilErr == [isNil |-> TRUE, msg |-> <<>>]
Errorf(format, args) == [isNil |-> FALSE, msg |-> Sprintf(format, args)]

----------------------------------------------------------------------------
(* Types (reflect.Type) of the example domain and their display strings. *)

\* *Database, Database, *UserRepository, func() *Database
Types == {"PD", "SD", "PU", "FD"}

\* reflect.Type.String()
TypeString(t) ==
    CASE t = "PD" -> <<"*", "a", ".", "D">>
      [] t = "SD" -> <<"a", ".", "D">>
      [] t = "PU" -> <<"*", "a", ".", "U">>
      [] t = "FD" -> <<"f", "u", "n", "c", "(", ")", " ", "*", "a", ".", "D">>
      [] t = "FU" -> <<"f", "u", "n", "c", "(", "*", "a", ".", "D", ")", " ", "*", "a", ".", "U">>
      [] t = "FR" -> <<"f", "u", "n", "c", "(", ")", " ", "*", "a", ".", "U">>
      [] t = "F0" -> <<"f", "u", "n", "c", "(", ")">>
      [] t = "FG" -> <<"f", "u", "n", "c", "(", ")", " ", "f", "u", "n", "c", "(", ")", " ", "*", "a", ".", "D">>
      [] t = "error" -> <<"e", "r", "r", "o", "r">>
      [] OTHER -> <<"?">>

\* a faulty variant of TrimmedName:
\* the "*" is trimmed before the split
TrimmedName_starFirst(name) ==
    LET bare == TrimPrefix(name, "*")
    IN  IF Contains(bare, ".") THEN LastPart(bare, ".") ELSE bare

\* the body of getTypeName on name = t.String(): the last part of the split
\* at "." when there is a ".", then one leading "*" trimmed
TrimmedName(name) ==
    LET bare == IF Contains(name, ".") THEN LastPart(name, ".") ELSE name
    IN  TrimPrefix(bare, "*")

\* Injector.getTypeName(t)
getTypeName(t) == TrimmedName(TypeString(t))

----------------------------------------------------------------------------
(* Go values: interface{} contents, function values and zero values. *)

\* the nil interface value
NilVal == [k |-> "nil"]

\* an allocated object of dynamic type t; id is its identity (pointer
\* equality), by names the function whose body allocated it ("app" when the
\* application built it itself)
Obj(t, id, by) == [k |-> "obj", t |-> t, id |-> id, by |-> by]

\* a *UserRepository allocated by function by, whose field DB holds db
Repo(id, by, db) == [k |-> "obj", t |-> "PU", id |-> id, by |-> by, DB |-> db]

\* a function value
Fn(f) == [k |-> "fn", f |-> f]

\* var zero T
Zero(t) == [k |-> "zero", t |-> t]

\* instances the application constructs itself: db1, db2 (*Database) and
\* a Database struct value
db1 == Obj("PD", -1, "app")
db2 == Obj("PD", -2, "app")
dbStruct == Obj("SD", -3, "app")

\* the functions the application registers: two zero-argument factories of
\* *Database, a constructor that takes a parameter, a function returning
\* nothing, a factory whose product is itself a function, and that product;
\* and two closures over the injector that build a *UserRepository from the
\* *Database they resolve, one by name and one by type
FuncNames ==
    {"NewDB", "NewDatabase", "NewUserRepository", "Noop", "NewGetter", "Getter",
     "repoByName", "repoByType"}

\* reflect.Type.NumIn() of each function
NumIn(f) == IF f = "NewUserRepository" THEN 1 ELSE 0

\* reflect.Type.Out(i) of each function, as a sequence
OutTypes(f) ==
    CASE f \in {"NewDB", "NewDatabase", "Getter"} -> <<"PD">>
      [] f \in {"NewUserRepository", "repoByName", "repoByType"} -> <<"PU">>
      [] f = "NewGetter" -> <<"FD">>
      [] OTHER -> <<>>

\* reflect.TypeOf of each function value
FuncType(f) ==
    CASE f \in {"NewDB", "NewDatabase", "Getter"} -> "FD"
      [] f = "NewUserRepository" -> "FU"
      [] f \in {"repoByName", "repoByType"} -> "FR"
      [] f = "NewGetter" -> "FG"
      [] OTHER -> "F0"

\* the function whose body returns f as its result ("app" for a declared function)
MadeBy(f) == IF f = "Getter" THEN "NewGetter" ELSE "app"

\* reflect.TypeOf(v)
TypeOf(v) ==
    CASE v.k = "obj" -> v.t
      [] v.k = "fn" -> FuncType(v.f)
      [] v.k = "zero" -> v.t
      [] OTHER -> "nil"

\* reflect.TypeOf(v).Kind() == reflect.Func
IsFunc(v) == v.k = "fn"

\* v, ok := x.(T) / reflect.Type.AssignableTo for the concrete types of the domain
AssignableTo(v, t) == v.k \in {"obj", "fn"} /\ TypeOf(v) = t

----------------------------------------------------------------------------
(* Panics and outcomes of an API call. *)

NoPanic == [kind |-> "none", err |-> NilErr]
\* panic(err)
PanicErr(e) == [kind |-> "error", err |-> e]
\* a run-time panic raised by reflect or by a nil dereference
PanicRuntime == [kind |-> "runtime", err |-> NilErr]

\* the registry of an Injector
Registry(d, f, t) == [dependencies |-> d, factories |-> f, typeRegistry |-> t]

NoMap == [x \in {} |-> NilVal]
\* m[k] = v
Put(m, k, v) == [x \in (DOMAIN m) \cup {k} |-> IF x = k THEN v ELSE m[x]]

\* NewInjector
NewInjector == Registry(NoMap, NoMap, NoMap)

\* one entry of the invocation log: function f was called for the slot it
\* was found in (reg = "name" with name, or reg = "type" with type)
Invocation(reg, name, type, f) == [reg |-> reg, name |-> name, type |-> type, f |-> f]

\* what an API call did: the registry and allocator it leaves, the value
\* and error it returns, the panic it raises, the functions it invoked, the
\* registered type keys it selected, and (Invoke, ResolveInto) the arguments
\* passed to the callback and the value written to the target
Outcome(st, next, val, err, pan, log, sel) ==
    [st |-> st, next |-> next, val |-> val, err |-> err, pan |-> pan,
     log |-> log, sel |-> sel, called |-> 0, args |-> <<>>, wrote |-> FALSE,
     written |-> NilVal]

----------------------------------------------------------------------------
(* Calling a registered function with no arguments (reflect.Value.Call). *)

\* the operations a closure over the injector calls from its body
RECURSIVE MustResolve(_, _, _)
RECURSIVE TypeMustResolve(_, _, _)

\* the name the closure repoByName resolves
DatabaseName == <<"d", "b">>

\* a body that returns results without touching the injector
Returns(st, next, results) ==
    [st |-> st, next |-> next, results |-> results, pan |-> NoPanic, log |-> <<>>]

\* db := <resolution with outcome o>; return NewUserRepository(db): a panic
\* of the resolution leaves the body, and so does a failed assertion
\* .(*Database); the registry is the one the resolution left
RepoFrom(f, o) ==
    IF o.pan.kind # "none"
    THEN [st |-> o.st, next |-> o.next, results |-> <<>>, pan |-> o.pan, log |-> o.log]
    ELSE IF ~AssignableTo(o.val, "PD")
    THEN [st |-> o.st, next |-> o.next, results |-> <<>>, pan |-> PanicRuntime,
          log |-> o.log]
    ELSE [st |-> o.st, next |-> o.next + 1, results |-> <<Repo(o.next, f, o.val)>>,
          pan |-> NoPanic, log |-> o.log]

\* the body of function f run from registry st with allocator next: the
\* results it returns or the panic it raises, the registry and allocator it
\* leaves, and the invocations made from inside it
Body(f, st, next) ==
    CASE f \in {"NewDB", "NewDatabase", "Getter"} ->
            {Returns(st, next + 1, <<Obj("PD", next, f)>>)}
      [] f = "NewGetter" ->
            {Returns(st, next, <<Fn("Getter")>>)}
      [] f = "NewUserRepository" ->
            {Returns(st, next + 1, <<Obj("PU", next, f)>>)}
      [] f = "repoByName" ->
            {RepoFrom(f, o) : o \in MustResolve(st, next, DatabaseName)}
      [] f = "repoByType" ->
            {RepoFrom(f, o) : o \in TypeMustResolve(st, next, "PD")}
      [] OTHER ->
            {Returns(st, next, <<>>)}

\* factory.Call([]reflect.Value{}): reflect panics when the function
\* declares parameters; otherwise the body runs (ran), and a panic of the
\* body passes through the call
CallNoArgs(f, st, next) ==
    IF NumIn(f) > 0
    THEN {[st |-> st, next |-> next, results |-> <<>>, panicked |-> TRUE,
           pan |-> PanicRuntime, ran |-> FALSE, log |-> <<>>]}
    ELSE {[st |-> b.st, next |-> b.next, results |-> b.results,
           panicked |-> b.pan.kind # "none", pan |-> b.pan, ran |-> TRUE,
           log |-> b.log] : b \in Body(f, st, next)}

\* the invocations of a call c made for the slot of entry: the function
\* itself when it ran, then those made from inside its body
LogOf(c, entry) == IF c.ran THEN entry \o c.log ELSE <<>>

----------------------------------------------------------------------------
(* Name path: InjectByName, Resolve, MustResolve. *)

\* a faulty variant of InjectByName:
\* only a function with no parameters and one result is filed as a factory
InjectByName_shapeChecked(st, next, dependency, name) ==
    IF dependency = NilVal
    THEN {Outcome(st, next, NilVal, NilErr, PanicRuntime, <<>>, <<>>)}
    ELSE IF IsFunc(dependency) /\ NumIn(dependency.f) = 0
                               /\ Len(OutTypes(dependency.f)) = 1
    THEN {Outcome([st EXCEPT !.factories = Put(@, name, dependency)],
                  next, NilVal, NilErr, NoPanic, <<>>, <<>>)}
    ELSE {Outcome([st EXCEPT !.dependencies = Put(@, name, dependency)],
                  next, NilVal, NilErr, NoPanic, <<>>, <<>>)}

\* a faulty variant of InjectByName:
\* the dependency is filed in the type registry as well
InjectByName_bothRegistries(st, next, dependency, name) ==
    IF dependency = NilVal
    THEN {Outcome(st, next, NilVal, NilErr, PanicRuntime, <<>>, <<>>)}
    ELSE IF IsFunc(dependency)
    THEN {Outcome([st EXCEPT !.factories = Put(@, name, dependency),
                             !.typeRegistry = Put(@, TypeOf(dependency), dependency)],
                  next, NilVal, NilErr, NoPanic, <<>>, <<>>)}
    ELSE {Outcome([st EXCEPT !.dependencies = Put(@, name, dependency),
                             !.typeRegistry = Put(@, TypeOf(dependency), dependency)],
                  next, NilVal, NilErr, NoPanic, <<>>, <<>>)}

\* Injector.InjectByName(dependency, name): a function goes to factories,
\* anything else to dependencies; reflect.TypeOf(nil).Kind() panics.
InjectByName(st, next, dependency, name) ==
    IF dependency = NilVal
    THEN {Outcome(st, next, NilVal, NilErr, PanicRuntime, <<>>, <<>>)}
    ELSE IF IsFunc(dependency)
    THEN {Outcome([st EXCEPT !.factories = Put(@, name, dependency)],
                  next, NilVal, NilErr, NoPanic, <<>>, <<>>)}
    ELSE {Outcome([st EXCEPT !.dependencies = Put(@, name, dependency)],
                  next, NilVal, NilErr, NoPanic, <<>>, <<>>)}

\* a faulty variant of NotFoundFormat:
\* the name is left out of the message
NotFoundFormat_noName == <<"dependency ", "not found">>

\* the format of Resolve's error
NotFoundFormat == <<"dependency ", "'", "%s", "'", " ", "not found">>

\* a faulty variant of Resolve:
\* the product of the factory is returned without being stored
Resolve_noCache(st, next, name) ==
    IF name \in DOMAIN st.dependencies
    THEN {Outcome(st, next, st.dependencies[name], NilErr, NoPanic, <<>>, <<>>)}
    ELSE IF name \in DOMAIN st.factories
    THEN LET f == st.factories[name].f
             entry == <<Invocation("name", name, "", f)>>
         IN  { IF c.panicked
               THEN Outcome(c.st, c.next, NilVal, NilErr, c.pan, LogOf(c, entry), <<>>)
               ELSE IF Len(c.results) > 0
               THEN Outcome(c.st, c.next, c.results[1], NilErr, NoPanic,
                            LogOf(c, entry), <<>>)
               ELSE Outcome(c.st, c.next, NilVal, Errorf(NotFoundFormat, <<name>>),
                            NoPanic, LogOf(c, entry), <<>>)
               : c \in CallNoArgs(f, st, next) }
    ELSE {Outcome(st, next, NilVal, Errorf(NotFoundFormat, <<name>>), NoPanic, <<>>, <<>>)}

\* a faulty variant of Resolve:
\* the factory is removed from factories once its product is stored
Resolve_evict(st, next, name) ==
    IF name \in DOMAIN st.dependencies
    THEN {Outcome(st, next, st.dependencies[name], NilErr, NoPanic, <<>>, <<>>)}
    ELSE IF name \in DOMAIN st.factories
    THEN LET f == st.factories[name].f
             entry == <<Invocation("name", name, "", f)>>
         IN  { IF c.panicked
               THEN Outcome(c.st, c.next, NilVal, NilErr, c.pan, LogOf(c, entry), <<>>)
               ELSE IF Len(c.results) > 0
               THEN Outcome([c.st EXCEPT
                               !.dependencies = Put(@, name, c.results[1]),
                               !.factories = [x \in (DOMAIN @) \ {name} |-> @[x]]],
                            c.next, c.results[1], NilErr, NoPanic, LogOf(c, entry), <<>>)
               ELSE Outcome(c.st, c.next, NilVal, Errorf(NotFoundFormat, <<name>>),
                            NoPanic, LogOf(c, entry), <<>>)
               : c \in CallNoArgs(f, st, next) }
    ELSE {Outcome(st, next, NilVal, Errorf(NotFoundFormat, <<name>>), NoPanic, <<>>, <<>>)}

\* a faulty variant of Resolve:
\* the factory is looked up before the instances
Resolve_factoryFirst(st, next, name) ==
    IF name \in DOMAIN st.factories
    THEN { IF c.panicked
           THEN Outcome(c.st, c.next, NilVal, NilErr, c.pan,
                        LogOf(c, <<Invocation("name", name, "", st.factories[name].f)>>),
                        <<>>)
           ELSE IF Len(c.results) > 0
           THEN Outcome([c.st EXCEPT !.dependencies = Put(@, name, c.results[1])],
                        c.next, c.results[1], NilErr, NoPanic,
                        LogOf(c, <<Invocation("name", name, "", st.factories[name].f)>>),
                        <<>>)
           ELSE Outcome(c.st, c.next, NilVal, Errorf(NotFoundFormat, <<name>>), NoPanic,
                        LogOf(c, <<Invocation("name", name, "", st.factories[name].f)>>),
                        <<>>)
           : c \in CallNoArgs(st.factories[name].f, st, next) }
    ELSE IF name \in DOMAIN st.dependencies
    THEN {Outcome(st, next, st.dependencies[name], NilErr, NoPanic, <<>>, <<>>)}
    ELSE {Outcome(st, next, NilVal, Errorf(NotFoundFormat, <<name>>), NoPanic, <<>>, <<>>)}

\* Injector.Resolve(name): a cached or registered instance first; else the
\* factory is called, and its first result cached in dependencies; a
\* factory without results falls through to the not-found error
Resolve(st, next, name) ==
    IF name \in DOMAIN st.dependencies
    THEN {Outcome(st, next, st.dependencies[name], NilErr, NoPanic, <<>>, <<>>)}
    ELSE IF name \in DOMAIN st.factories
    THEN LET f == st.factories[name].f
             entry == <<Invocation("name", name, "", f)>>
         IN  { IF c.panicked
               THEN Outcome(c.st, c.next, NilVal, NilErr, c.pan, LogOf(c, entry), <<>>)
               ELSE IF Len(c.results) > 0
               THEN Outcome([c.st EXCEPT !.dependencies = Put(@, name, c.results[1])],
                            c.next, c.results[1], NilErr, NoPanic, LogOf(c, entry), <<>>)
               ELSE Outcome(c.st, c.next, NilVal, Errorf(NotFoundFormat, <<name>>),
                            NoPanic, LogOf(c, entry), <<>>)
               : c \in CallNoArgs(f, st, next) }
    ELSE {Outcome(st, next, NilVal, Errorf(NotFoundFormat, <<name>>), NoPanic, <<>>, <<>>)}

\* a faulty variant of MustOf:
\* the error is dropped instead of raised
MustOf_swallow(o) == [o EXCEPT !.err = NilErr]

\* dep, err := ...; if err != nil { panic(err) }; return dep
\* applied to one outcome of the error-returning call
MustOf(o) ==
    IF o.pan.kind = "none" /\ ~o.err.isNil
    THEN [o EXCEPT !.pan = PanicErr(o.err), !.err = NilErr, !.val = NilVal]
    ELSE o

\* Injector.MustResolve(name)
MustResolve(st, next, name) == {MustOf(o) : o \in Resolve(st, next, name)}

----------------------------------------------------------------------------
(* Type path: Inject, resolveRegisteredDependency, ResolveByTypeName. *)

\* a faulty variant of Inject:
\* an existing entry under the key is kept
Inject_keepFirst(st, next, dependency) ==
    LET key == IF IsFunc(dependency) THEN OutTypes(dependency.f)[1] ELSE TypeOf(dependency)
    IN  IF dependency = NilVal
        THEN {Outcome(st, next, NilVal, NilErr, PanicRuntime, <<>>, <<>>)}
        ELSE IF IsFunc(dependency) /\ Len(OutTypes(dependency.f)) = 0
        THEN {Outcome(st, next, NilVal, NilErr, NoPanic, <<>>, <<>>)}
        ELSE {Outcome([st EXCEPT !.typeRegistry =
                          IF key \in DOMAIN @ THEN @ ELSE Put(@, key, dependency)],
                      next, NilVal, NilErr, NoPanic, <<>>, <<>>)}

\* a faulty variant of Inject:
\* a factory is called at registration and its
\* product stored
Inject_eager(st, next, dependency) ==
    IF dependency = NilVal
    THEN {Outcome(st, next, NilVal, NilErr, PanicRuntime, <<>>, <<>>)}
    ELSE IF IsFunc(dependency)
    THEN IF Len(OutTypes(dependency.f)) > 0
         THEN IF NumIn(dependency.f) = 0
              THEN { Outcome([c.st EXCEPT !.typeRegistry =
                                 Put(@, OutTypes(dependency.f)[1], c.results[1])],
                             c.next, NilVal, NilErr, NoPanic,
                             LogOf(c, <<Invocation("type", <<>>, OutTypes(dependency.f)[1],
                                                   dependency.f)>>), <<>>)
                     : c \in CallNoArgs(dependency.f, st, next) }
              ELSE {Outcome([st EXCEPT !.typeRegistry =
                                Put(@, OutTypes(dependency.f)[1], dependency)],
                            next, NilVal, NilErr, NoPanic, <<>>, <<>>)}
         ELSE {Outcome(st, next, NilVal, NilErr, NoPanic, <<>>, <<>>)}
    ELSE {Outcome([st EXCEPT !.typeRegistry = Put(@, TypeOf(dependency), dependency)],
                  next, NilVal, NilErr, NoPanic, <<>>, <<>>)}

\* Injector.Inject(dependency): a function is keyed by its first declared
\* return type (a function without results registers nothing), anything
\* else by its own type; reflect.TypeOf(nil).Kind() panics
Inject(st, next, dependency) ==
    IF dependency = NilVal
    THEN {Outcome(st, next, NilVal, NilErr, PanicRuntime, <<>>, <<>>)}
    ELSE IF IsFunc(dependency)
    THEN IF Len(OutTypes(dependency.f)) > 0
         THEN {Outcome([st EXCEPT !.typeRegistry =
                           Put(@, OutTypes(dependency.f)[1], dependency)],
                       next, NilVal, NilErr, NoPanic, <<>>, <<>>)}
         ELSE {Outcome(st, next, NilVal, NilErr, NoPanic, <<>>, <<>>)}
    ELSE {Outcome([st EXCEPT !.typeRegistry = Put(@, TypeOf(dependency), dependency)],
                  next, NilVal, NilErr, NoPanic, <<>>, <<>>)}

NoValuesFormat == <<"factory function returned no values">>

\* Injector.resolveRegisteredDependency(dependency, depType): an entry that
\* is not a function is returned as it is; a function is called and its
\* first result stored under depType
resolveRegisteredDependency(st, next, dependency, depType) ==
    IF dependency = NilVal
    THEN {Outcome(st, next, NilVal, NilErr, PanicRuntime, <<>>, <<depType>>)}
    ELSE IF ~IsFunc(dependency)
    THEN {Outcome(st, next, dependency, NilErr, NoPanic, <<>>, <<depType>>)}
    ELSE { IF c.panicked
           THEN Outcome(c.st, c.next, NilVal, NilErr, c.pan,
                        LogOf(c, <<Invocation("type", <<>>, depType, dependency.f)>>),
                        <<depType>>)
           ELSE IF Len(c.results) = 0
           THEN Outcome(c.st, c.next, NilVal, Errorf(NoValuesFormat, <<>>), NoPanic,
                        LogOf(c, <<Invocation("type", <<>>, depType, dependency.f)>>),
                        <<depType>>)
           ELSE Outcome([c.st EXCEPT !.typeRegistry = Put(@, depType, c.results[1])],
                        c.next, c.results[1], NilErr, NoPanic,
                        LogOf(c, <<Invocation("type", <<>>, depType, dependency.f)>>),
                        <<depType>>)
           : c \in CallNoArgs(dependency.f, st, next) }

\* the registered type keys whose bare name is typeName: the keys a
\* `for registeredType := range typeRegistry` scan can stop at
KeysNamed(st, typeName) ==
    {r \in DOMAIN st.typeRegistry : getTypeName(r) = typeName}

NoTypeNameFormat == <<"no dependency found for type", " name ", "%s">>

\* a faulty variant of ResolveByTypeName:
\* the first key of the scan is resolved, whatever its bare name
ResolveByTypeName_firstKey(st, next, typeName) ==
    IF DOMAIN st.typeRegistry = {}
    THEN {Outcome(st, next, NilVal, Errorf(NoTypeNameFormat, <<typeName>>),
                  NoPanic, <<>>, <<>>)}
    ELSE UNION { resolveRegisteredDependency(st, next, st.typeRegistry[r], r) :
                   r \in DOMAIN st.typeRegistry }

\* Injector.ResolveByTypeName(typeName): the first key of the scan whose
\* bare name matches is resolved
ResolveByTypeName(st, next, typeName) ==
    IF KeysNamed(st, typeName) = {}
    THEN {Outcome(st, next, NilVal, Errorf(NoTypeNameFormat, <<typeName>>),
                  NoPanic, <<>>, <<>>)}
    ELSE UNION { resolveRegisteredDependency(st, next, st.typeRegistry[r], r) :
                   r \in KeysNamed(st, typeName) }

----------------------------------------------------------------------------
(* Generic resolution: For[T].Resolve and its shortcuts. *)

MismatchFormat == <<"type mismatch", ": cannot cast to ", "%T">>
NoTypeFormat == <<"no dependency found for type", " ", "%v">>

\* a faulty variant of resolveDependency:
\* the resolved value is returned without the cast to T
resolveDependency_noCast(st, next, dependency, depType, T) ==
    IF dependency = NilVal
    THEN {Outcome(st, next, Zero(T), NilErr, PanicRuntime, <<>>, <<depType>>)}
    ELSE IF ~IsFunc(dependency)
    THEN {Outcome(st, next, dependency, NilErr, NoPanic, <<>>, <<depType>>)}
    ELSE { IF c.panicked
           THEN Outcome(c.st, c.next, Zero(T), NilErr, c.pan,
                        LogOf(c, <<Invocation("type", <<>>, depType, dependency.f)>>),
                        <<depType>>)
           ELSE IF Len(c.results) = 0
           THEN Outcome(c.st, c.next, Zero(T), Errorf(NoValuesFormat, <<>>), NoPanic,
                        LogOf(c, <<Invocation("type", <<>>, depType, dependency.f)>>),
                        <<depType>>)
           ELSE Outcome([c.st EXCEPT !.typeRegistry = Put(@, depType, c.results[1])],
                        c.next, c.results[1], NilErr, NoPanic,
                        LogOf(c, <<Invocation("type", <<>>, depType, dependency.f)>>),
                        <<depType>>)
           : c \in CallNoArgs(dependency.f, st, next) }

\* a faulty variant of resolveDependency:
\* the product is cached under the requested type T
resolveDependency_cacheUnderT(st, next, dependency, depType, T) ==
    IF dependency = NilVal
    THEN {Outcome(st, next, Zero(T), NilErr, PanicRuntime, <<>>, <<depType>>)}
    ELSE IF ~IsFunc(dependency)
    THEN IF AssignableTo(dependency, T)
         THEN {Outcome(st, next, dependency, NilErr, NoPanic, <<>>, <<depType>>)}
         ELSE {Outcome(st, next, Zero(T), Errorf(MismatchFormat, <<TypeString(T)>>),
                       NoPanic, <<>>, <<depType>>)}
    ELSE { IF c.panicked
           THEN Outcome(c.st, c.next, Zero(T), NilErr, c.pan,
                        LogOf(c, <<Invocation("type", <<>>, depType, dependency.f)>>),
                        <<depType>>)
           ELSE IF Len(c.results) = 0
           THEN Outcome(c.st, c.next, Zero(T), Errorf(NoValuesFormat, <<>>), NoPanic,
                        LogOf(c, <<Invocation("type", <<>>, depType, dependency.f)>>),
                        <<depType>>)
           ELSE LET cached == [c.st EXCEPT !.typeRegistry = Put(@, T, c.results[1])]
                    entry == LogOf(c, <<Invocation("type", <<>>, depType, dependency.f)>>)
                IN  IF AssignableTo(c.results[1], T)
                    THEN Outcome(cached, c.next, c.results[1], NilErr, NoPanic,
                                 entry, <<depType>>)
                    ELSE Outcome(cached, c.next, Zero(T),
                                 Errorf(MismatchFormat, <<TypeString(T)>>), NoPanic,
                                 entry, <<depType>>)
           : c \in CallNoArgs(dependency.f, st, next) }

\* TypeResolver[T].resolveDependency(dependency, depType)
resolveDependency(st, next, dependency, depType, T) ==
    IF dependency = NilVal
    THEN {Outcome(st, next, Zero(T), NilErr, PanicRuntime, <<>>, <<depType>>)}
    ELSE IF ~IsFunc(dependency)
    THEN IF AssignableTo(dependency, T)
         THEN {Outcome(st, next, dependency, NilErr, NoPanic, <<>>, <<depType>>)}
         ELSE {Outcome(st, next, Zero(T), Errorf(MismatchFormat, <<TypeString(T)>>),
                       NoPanic, <<>>, <<depType>>)}
    ELSE { IF c.panicked
           THEN Outcome(c.st, c.next, Zero(T), NilErr, c.pan,
                        LogOf(c, <<Invocation("type", <<>>, depType, dependency.f)>>),
                        <<depType>>)
           ELSE IF Len(c.results) = 0
           THEN Outcome(c.st, c.next, Zero(T), Errorf(NoValuesFormat, <<>>), NoPanic,
                        LogOf(c, <<Invocation("type", <<>>, depType, dependency.f)>>),
                        <<depType>>)
           ELSE LET cached == [c.st EXCEPT !.typeRegistry = Put(@, depType, c.results[1])]
                    entry == LogOf(c, <<Invocation("type", <<>>, depType, dependency.f)>>)
                IN  IF AssignableTo(c.results[1], T)
                    THEN Outcome(cached, c.next, c.results[1], NilErr, NoPanic,
                                 entry, <<depType>>)
                    ELSE Outcome(cached, c.next, Zero(T),
                                 Errorf(MismatchFormat, <<TypeString(T)>>), NoPanic,
                                 entry, <<depType>>)
           : c \in CallNoArgs(dependency.f, st, next) }

\* a faulty variant of TypeResolve:
\* the scan by bare name runs without the exact lookup
TypeResolve_scanOnly(st, next, T) ==
    IF KeysNamed(st, getTypeName(T)) # {}
    THEN UNION { resolveDependency(st, next, st.typeRegistry[r], r, T) :
                   r \in KeysNamed(st, getTypeName(T)) }
    ELSE {Outcome(st, next, Zero(T), Errorf(NoTypeFormat, <<TypeString(T)>>),
                  NoPanic, <<>>, <<>>)}

\* a faulty variant of TypeResolve:
\* a type without an entry yields the zero value and no error
TypeResolve_zeroNoError(st, next, T) ==
    IF T \in DOMAIN st.typeRegistry
    THEN resolveDependency(st, next, st.typeRegistry[T], T, T)
    ELSE IF KeysNamed(st, getTypeName(T)) # {}
    THEN UNION { resolveDependency(st, next, st.typeRegistry[r], r, T) :
                   r \in KeysNamed(st, getTypeName(T)) }
    ELSE {Outcome(st, next, Zero(T), NilErr, NoPanic, <<>>, <<>>)}

\* TypeResolver[T].Resolve(): the exact key first, else the first key of
\* the scan with T's bare name
TypeResolve(st, next, T) ==
    IF T \in DOMAIN st.typeRegistry
    THEN resolveDependency(st, next, st.typeRegistry[T], T, T)
    ELSE IF KeysNamed(st, getTypeName(T)) # {}
    THEN UNION { resolveDependency(st, next, st.typeRegistry[r], r, T) :
                   r \in KeysNamed(st, getTypeName(T)) }
    ELSE {Outcome(st, next, Zero(T), Errorf(NoTypeFormat, <<TypeString(T)>>),
                  NoPanic, <<>>, <<>>)}

\* TypeResolver[T].MustResolve()
TypeMustResolve(st, next, T) == {MustOf(o) : o \in TypeResolve(st, next, T)}

\* ResolveByType[T](i) == For[T](i).Resolve()
ResolveByType(st, next, T) == TypeResolve(st, next, T)
\* MustResolveByType[T](i) == For[T](i).MustResolve()
MustResolveByType(st, next, T) == TypeMustResolve(st, next, T)
\* Get[T](i) == ResolveByType[T](i)
Get(st, next, T) == ResolveByType(st, next, T)
\* a faulty variant of Must:
\* the error of the resolution is dropped instead of raised
Must_swallow(st, next, T) == {MustOf_swallow(o) : o \in ResolveByType(st, next, T)}

\* Must[T](i) == MustResolveByType[T](i)
Must(st, next, T) == MustResolveByType(st, next, T)

----------------------------------------------------------------------------
(* ResolveInto. *)

\* targets passed to ResolveInto: &x for a variable x of type elem (x holds
\* its zero value), or a nil pointer of that pointer type
PtrTo(elem) == [k |-> "ptr", elem |-> elem, isNil |-> FALSE]
NilPtrTo(elem) == [k |-> "ptr", elem |-> elem, isNil |-> TRUE]

TargetNilFormat == <<"target is nil">>
TargetNotPtrFormat == <<"target must be a non-nil pointer">>
NotAssignableFormat == <<"resolved type ", "%v", " is ", "not assignable", " to ", "%v">>

\* a faulty variant of StoreInto:
\* the target is set before the assignability check
StoreInto_setFirst(o, elemType) ==
    IF o.pan.kind # "none" THEN [o EXCEPT !.val = NilVal]
    ELSE IF ~o.err.isNil THEN [o EXCEPT !.val = NilVal]
    ELSE IF o.val = NilVal THEN [o EXCEPT !.pan = PanicRuntime]
    ELSE IF ~AssignableTo(o.val, elemType)
    THEN [o EXCEPT !.val = NilVal, !.wrote = TRUE, !.written = o.val,
                   !.err = Errorf(NotAssignableFormat,
                                  <<TypeString(TypeOf(o.val)), TypeString(elemType)>>)]
    ELSE [o EXCEPT !.val = NilVal, !.wrote = TRUE, !.written = o.val]

\* the tail shared by both branches of ResolveInto, applied to an outcome
\* of resolveRegisteredDependency: the error is returned; a nil instance
\* makes reflect.ValueOf(inst).Type() panic; a value that is not
\* assignable is refused; otherwise v.Elem().Set(rv)
StoreInto(o, elemType) ==
    IF o.pan.kind # "none" THEN [o EXCEPT !.val = NilVal]
    ELSE IF ~o.err.isNil THEN [o EXCEPT !.val = NilVal]
    ELSE IF o.val = NilVal THEN [o EXCEPT !.pan = PanicRuntime]
    ELSE IF ~AssignableTo(o.val, elemType)
    THEN [o EXCEPT !.val = NilVal,
                   !.err = Errorf(NotAssignableFormat,
                                  <<TypeString(TypeOf(o.val)), TypeString(elemType)>>)]
    ELSE [o EXCEPT !.val = NilVal, !.wrote = TRUE, !.written = o.val]

\* a faulty variant of ResolveInto:
\* the nil target is not told apart from a target that is no pointer
ResolveInto_oneGuard(st, next, target) ==
    IF target = NilVal \/ target.k # "ptr" \/ target.isNil
    THEN {Outcome(st, next, NilVal, Errorf(TargetNotPtrFormat, <<>>), NoPanic, <<>>, <<>>)}
    ELSE LET elemType == target.elem
         IN  IF elemType \in DOMAIN st.typeRegistry
             THEN { StoreInto(o, elemType) :
                      o \in resolveRegisteredDependency(st, next,
                                st.typeRegistry[elemType], elemType) }
             ELSE IF KeysNamed(st, getTypeName(elemType)) # {}
             THEN UNION { { StoreInto(o, elemType) :
                              o \in resolveRegisteredDependency(st, next,
                                        st.typeRegistry[r], r) } :
                            r \in KeysNamed(st, getTypeName(elemType)) }
             ELSE {Outcome(st, next, NilVal,
                           Errorf(NoTypeFormat, <<TypeString(elemType)>>),
                           NoPanic, <<>>, <<>>)}

\* Injector.ResolveInto(target)
ResolveInto(st, next, target) ==
    IF target = NilVal
    THEN {Outcome(st, next, NilVal, Errorf(TargetNilFormat, <<>>), NoPanic, <<>>, <<>>)}
    ELSE IF target.k # "ptr" \/ target.isNil
    THEN {Outcome(st, next, NilVal, Errorf(TargetNotPtrFormat, <<>>), NoPanic, <<>>, <<>>)}
    ELSE LET elemType == target.elem
         IN  IF elemType \in DOMAIN st.typeRegistry
             THEN { StoreInto(o, elemType) :
                      o \in resolveRegisteredDependency(st, next,
                                st.typeRegistry[elemType], elemType) }
             ELSE IF KeysNamed(st, getTypeName(elemType)) # {}
             THEN UNION { { StoreInto(o, elemType) :
                              o \in resolveRegisteredDependency(st, next,
                                        st.typeRegistry[r], r) } :
                            r \in KeysNamed(st, getTypeName(elemType)) }
             ELSE {Outcome(st, next, NilVal,
                           Errorf(NoTypeFormat, <<TypeString(elemType)>>),
                           NoPanic, <<>>, <<>>)}

----------------------------------------------------------------------------
(* Invoke. *)

\* the error a callback returns when it fails
boom == Errorf(<<"boom">>, <<>>)

\* the functions passed to Invoke
Callbacks == {"useDB", "checkDB", "failDB", "twoDB", "pairErr", "getDB",
              "errThenDB", "useStruct", "useRepo", "twoGetters", "repoThenDB"}

\* reflect.Type.In(i) of each callback, as a sequence
Params(cb) ==
    CASE cb \in {"useDB", "checkDB", "failDB"} -> <<"PD">>
      [] cb = "twoDB" -> <<"PD", "PD">>
      [] cb = "useStruct" -> <<"SD">>
      [] cb = "useRepo" -> <<"PD", "PU">>
      [] cb = "repoThenDB" -> <<"PU", "PD">>
      [] cb = "twoGetters" -> <<"FD", "FD">>
      [] OTHER -> <<>>

\* reflect.Type.Out(i) of each callback, as a sequence
CallbackOuts(cb) ==
    CASE cb \in {"checkDB", "failDB"} -> <<"error">>
      [] cb = "pairErr" -> <<"PD", "error">>
      [] cb = "getDB" -> <<"PD">>
      [] cb = "errThenDB" -> <<"error", "PD">>
      [] OTHER -> <<>>

\* the results each callback returns (error results are error values)
CallbackResults(cb) ==
    CASE cb = "checkDB" -> <<NilErr>>
      [] cb = "failDB" -> <<boom>>
      [] cb = "pairErr" -> <<db1, boom>>
      [] cb = "getDB" -> <<db1>>
      [] cb = "errThenDB" -> <<boom, db1>>
      [] OTHER -> <<>>

Callback(cb) == [k |-> "cb", f |-> cb]

FnNilFormat == <<"fn is nil">>
FnNotFuncFormat == <<"fn must be a function">>
NoParamFormat == <<"no dependency found for", " parameter type ", "%v">>

\* a faulty variant of ResolveParam:
\* a parameter without an entry is passed as nil instead of refused
ResolveParam_skipMissing(st, next, pType) ==
    IF pType \in DOMAIN st.typeRegistry
    THEN resolveRegisteredDependency(st, next, st.typeRegistry[pType], pType)
    ELSE IF KeysNamed(st, getTypeName(pType)) # {}
    THEN UNION { resolveRegisteredDependency(st, next, st.typeRegistry[r], r) :
                   r \in KeysNamed(st, getTypeName(pType)) }
    ELSE {Outcome(st, next, NilVal, NilErr, NoPanic, <<>>, <<>>)}

\* the body of Invoke's loop for one parameter type: the exact key first,
\* else the first key of the scan with the same bare name, else the
\* missing-parameter error
ResolveParam(st, next, pType) ==
    IF pType \in DOMAIN st.typeRegistry
    THEN resolveRegisteredDependency(st, next, st.typeRegistry[pType], pType)
    ELSE IF KeysNamed(st, getTypeName(pType)) # {}
    THEN UNION { resolveRegisteredDependency(st, next, st.typeRegistry[r], r) :
                   r \in KeysNamed(st, getTypeName(pType)) }
    ELSE {Outcome(st, next, NilVal, Errorf(NoParamFormat, <<TypeString(pType)>>),
                  NoPanic, <<>>, <<>>)}

RECURSIVE ResolveParams(_, _)
\* Invoke's loop from parameter idx on: acc carries the registry, the
\* arguments resolved and the calls made so far; a parameter's error or
\* panic ends the loop
ResolveParams(acc, params) ==
    IF Len(acc.args) = Len(params) \/ acc.pan.kind # "none" \/ ~acc.err.isNil
    THEN {acc}
    ELSE UNION { ResolveParams(
                    [acc EXCEPT !.st = o.st, !.next = o.next, !.err = o.err,
                                !.pan = o.pan, !.log = @ \o o.log, !.sel = @ \o o.sel,
                                !.args = IF o.pan.kind = "none" /\ o.err.isNil
                                         THEN Append(@, o.val) ELSE @],
                    params) :
                 o \in ResolveParam(acc.st, acc.next, params[Len(acc.args) + 1]) }

\* fv.Call(args): reflect panics on an argument that is the zero Value or
\* is not assignable to its parameter type; otherwise the function runs
CallWith(cb, args) ==
    IF \E i \in 1..Len(args) : ~AssignableTo(args[i], Params(cb)[i])
    THEN [panicked |-> TRUE, results |-> <<>>]
    ELSE [panicked |-> FALSE, results |-> CallbackResults(cb)]

\* a faulty variant of PropagateError:
\* any non-nil error result is returned
PropagateError_anyResult(outs, results) ==
    IF \E i \in 1..Len(outs) : outs[i] = "error" /\ ~results[i].isNil
    THEN results[CHOOSE i \in 1..Len(outs) : outs[i] = "error" /\ ~results[i].isNil]
    ELSE NilErr

\* the end of Invoke: the last result is returned when its declared type is
\* error and it is not nil
PropagateError(outs, results) ==
    IF Len(outs) > 0
    THEN IF outs[Len(outs)] = "error"
         THEN IF ~results[Len(outs)].isNil THEN results[Len(outs)] ELSE NilErr
         ELSE NilErr
    ELSE NilErr

\* a faulty variant of Invoke:
\* the kind of fn is not checked, and reflect panics on a non-function
Invoke_noKindCheck(st, next, fn) ==
    IF fn = NilVal
    THEN {Outcome(st, next, NilVal, Errorf(FnNilFormat, <<>>), NoPanic, <<>>, <<>>)}
    ELSE IF fn.k # "cb"
    THEN {Outcome(st, next, NilVal, NilErr, PanicRuntime, <<>>, <<>>)}
    ELSE { IF a.pan.kind # "none" \/ ~a.err.isNil
           THEN a
           ELSE IF CallWith(fn.f, a.args).panicked
           THEN [a EXCEPT !.pan = PanicRuntime]
           ELSE [a EXCEPT !.called = 1,
                          !.err = PropagateError(CallbackOuts(fn.f),
                                                 CallWith(fn.f, a.args).results)]
           : a \in ResolveParams(Outcome(st, next, NilVal, NilErr, NoPanic, <<>>, <<>>),
                                 Params(fn.f)) }

\* Injector.Invoke(fn)
Invoke(st, next, fn) ==
    IF fn = NilVal
    THEN {Outcome(st, next, NilVal, Errorf(FnNilFormat, <<>>), NoPanic, <<>>, <<>>)}
    ELSE IF fn.k # "cb"
    THEN {Outcome(st, next, NilVal, Errorf(FnNotFuncFormat, <<>>), NoPanic, <<>>, <<>>)}
    ELSE { IF a.pan.kind # "none" \/ ~a.err.isNil
           THEN a
           ELSE IF CallWith(fn.f, a.args).panicked
           THEN [a EXCEPT !.pan = PanicRuntime]
           ELSE [a EXCEPT !.called = 1,
                          !.err = PropagateError(CallbackOuts(fn.f),
                                                 CallWith(fn.f, a.args).results)]
           : a \in ResolveParams(Outcome(st, next, NilVal, NilErr, NoPanic, <<>>, <<>>),
                                 Params(fn.f)) }

----------------------------------------------------------------------------
(* The container as a state machine: one action per API call. *)

\* names used with InjectByName / Resolve
Names == {<<"d", "b">>, <<"u">>}

\* type names used with ResolveByTypeName
BareNames == {<<"D">>, <<"U">>, <<"X">>}

\* dependencies passed to InjectByName / Inject
Dependencies ==
    {db1, db2, dbStruct, Fn("NewDB"), Fn("NewDatabase"), Fn("NewUserRepository"),
     Fn("Noop"), Fn("NewGetter"), NilVal}

\* targets passed to ResolveInto
Targets == {NilVal, dbStruct, NilPtrTo("PD")} \cup {PtrTo(t) : t \in Types}

\* arguments passed to Invoke
Invokables == {NilVal, db1} \cup {Callback(cb) : cb \in Callbacks}

\* the registry held by the variables
Cur == Registry(dependencies, factories, typeRegistry)

\* the goroutines that resolve concurrently
Threads == {"g1", "g2"}

\* a goroutine that runs no resolution
Idle ==
    [pc |-> "idle", op |-> "", key |-> <<>>, slot |-> "", f |-> "", invoked |-> FALSE,
     instance |-> NilVal, val |-> NilVal, err |-> NilErr, pan |-> NoPanic]

\* the history kept per key since its last registration: how many
\* resolutions asked for it, how many times a function was called for its
\* slot, the first value a resolution yielded, and whether every later
\* resolution yielded that same value
FreshHistory == [resolves |-> 0, inv |-> 0, got |-> FALSE, first |-> NilVal, same |-> TRUE]

Seen(h, yielded, made) ==
    [resolves |-> h.resolves + 1,
     inv |-> h.inv + made,
     got |-> h.got \/ yielded # <<>>,
     first |-> IF ~h.got /\ yielded # <<>> THEN yielded[1] ELSE h.first,
     same |-> /\ h.same
              /\ \A i \in 1..Len(yielded) :
                    yielded[i] = (IF h.got THEN h.first ELSE yielded[1])]

Succeeded(o) == o.pan.kind = "none" /\ o.err.isNil

\* a parameter or target type t has an entry in registry st: under the
\* exact key, or under a key with the same bare name
Matched(st, t) ==
    t \in DOMAIN st.typeRegistry \/ KeysNamed(st, getTypeName(t)) # {}

\* the position (from 1) of the first type of params without an entry in
\* st; 0 when every type has one
FirstMissing(st, params) ==
    IF \A i \in 1..Len(params) : Matched(st, params[i]) THEN 0
    ELSE CHOOSE i \in 1..Len(params) :
            /\ ~Matched(st, params[i])
            /\ \A j \in 1..(i - 1) : Matched(st, params[j])

\* the observation of an API call with outcome o; changed, resolvable and
\* missing compare with, and are evaluated in, the registry before the call
Observe(op, name, type, arg, o) ==
    [op |-> op, name |-> name, type |-> type, arg |-> arg,
     val |-> o.val, err |-> o.err, pan |-> o.pan, log |-> o.log, sel |-> o.sel,
     called |-> o.called, args |-> o.args, wrote |-> o.wrote, written |-> o.written,
     changed |-> o.st # Cur,
     matched |-> type \in Types /\ Matched(Cur, type),
     missing |-> IF op = "Invoke" /\ arg.k = "cb"
                 THEN FirstMissing(Cur, Params(arg.f)) ELSE 0,
     resolvable |-> /\ op = "Invoke" /\ arg.k = "cb"
                    /\ \A i \in 1..Len(Params(arg.f)) :
                          \A x \in TypeResolve(Cur, nextId, Params(arg.f)[i]) :
                             Succeeded(x)]

\* the number of entries of an invocation log that call function f
CallsOf(log, f) == Cardinality({i \in 1..Len(log) : log[i].f = f})

\* the number of entries of an invocation log that call the factory of name n
CallsForName(log, n) ==
    Cardinality({i \in 1..Len(log) : log[i].reg = "name" /\ log[i].name = n})

\* the variables after an API call with outcome o
Becomes(op, name, type, arg, o) ==
    /\ dependencies' = o.st.dependencies
    /\ factories' = o.st.factories
    /\ typeRegistry' = o.st.typeRegistry
    /\ nextId' = o.next
    /\ steps' = steps + 1
    /\ ret' = Observe(op, name, type, arg, o)
    /\ calls' = [f \in FuncNames |-> calls[f] + CallsOf(o.log, f)]
    /\ UNCHANGED <<threads, fatal, named, strict, run>>

\* the number of times the invocation log calls function f for type slot t
CallsForType(log, t, f) ==
    Cardinality({i \in 1..Len(log) :
                    log[i].reg = "type" /\ log[i].type = t /\ log[i].f = f})

\* the type key Inject files a dependency under ("" when it files nothing)
KeyOf(d) ==
    IF d = NilVal THEN ""
    ELSE IF IsFunc(d) THEN (IF OutTypes(d.f) = <<>> THEN "" ELSE OutTypes(d.f)[1])
    ELSE TypeOf(d)

\* the types a type-path call asks for, and the values it yields for type t
Asked(r) ==
    CASE r.op = "ResolveByTypeName" -> {t \in Types : getTypeName(t) = r.name}
      [] r.op = "ResolveInto" -> IF r.arg.k = "ptr" /\ ~r.arg.isNil THEN {r.arg.elem} ELSE {}
      [] r.op = "Invoke" ->
            IF r.arg.k = "cb" THEN {Params(r.arg.f)[i] : i \in 1..Len(Params(r.arg.f))} ELSE {}
      [] OTHER -> {r.type}

RECURSIVE ArgsOfType(_, _, _)
ArgsOfType(params, args, t) ==
    IF params = <<>> \/ args = <<>> THEN <<>>
    ELSE (IF Head(params) = t THEN <<Head(args)>> ELSE <<>>)
         \o ArgsOfType(Tail(params), Tail(args), t)

YieldedFor(r, t) ==
    CASE r.op = "ResolveInto" -> IF r.wrote THEN <<r.written>> ELSE <<>>
      [] r.op = "Invoke" ->
            IF r.called = 1 THEN ArgsOfType(Params(r.arg.f), r.args, t) ELSE <<>>
      [] OTHER -> IF r.pan.kind = "none" /\ r.err.isNil THEN <<r.val>> ELSE <<>>

NameHistoryUnchanged == UNCHANGED <<lastName, sinceName>>
TypeHistoryUnchanged == UNCHANGED <<lastType, sinceType>>

\* the history after a type-path resolution observed as r
TypeHistoryAfter(r) ==
    /\ lastType' = lastType
    /\ sinceType' = [t \in DOMAIN sinceType |->
                        IF t \in Asked(r)
                        THEN Seen(sinceType[t], YieldedFor(r, t),
                                  IF IsFunc(lastType[t])
                                  THEN CallsForType(r.log, t, lastType[t].f) ELSE 0)
                        ELSE sinceType[t]]
    /\ asked' = asked \cup
                 {typeRegistry[k].f : k \in
                    {k \in DOMAIN typeRegistry :
                        /\ IsFunc(typeRegistry[k])
                        /\ \E t \in Asked(r) :
                              k = t \/ getTypeName(k) = getTypeName(t)}}

\* the tokens of the display strings, and the display strings
DisplayTokens == {"*", ".", "a", "D"}
DisplayStrings == UNION {[1..n -> DisplayTokens] : n \in 0..MaxDisplayLen}

\* no display string has been given to getTypeName
Unnamed == [shown |-> <<>>, bare |-> <<>>, applied |-> FALSE]

\* a new Injector, its histories empty
InitInjector ==
    /\ dependencies = NewInjector.dependencies
    /\ factories = NewInjector.factories
    /\ typeRegistry = NewInjector.typeRegistry
    /\ nextId = 1
    /\ steps = 0
    /\ ret = Observe("NewInjector", <<>>, "", NilVal,
                     Outcome(Cur, 1, NilVal, NilErr, NoPanic, <<>>, <<>>))
    /\ lastName = NoMap
    /\ lastType = NoMap
    /\ sinceName = NoMap
    /\ sinceType = NoMap
    /\ calls = [f \in FuncNames |-> 0]
    /\ asked = {}
    /\ threads = [t \in Threads |-> Idle]
    /\ fatal = FALSE

\* New() of the validating Injector: &Injector{}, its dependencies map nil
\* (a nil map reads as an empty one); no call made yet
StrictNew ==
    [dependencies |-> NoMap, injected |-> {}, op |-> "New", name |-> <<>>,
     source |-> NilVal, val |-> NilVal, err |-> NilErr, made |-> 0]

\* no call is in progress and none has been made: the stack is empty
NotRunning ==
    [status |-> "idle", stack |-> <<>>, op |-> "", name |-> <<>>, type |-> "",
     arg |-> NilVal, val |-> NilVal, err |-> NilErr, pan |-> NoPanic,
     wrote |-> FALSE, written |-> NilVal, called |-> 0, made |-> 0,
     before |-> NewInjector, enteredNames |-> {}, enteredTypes |-> {},
     start |-> 1, madeByName |-> NoMap, madeByType |-> NoMap, deepest |-> 0]

Init == InitInjector /\ named = Unnamed /\ strict = StrictNew /\ run = NotRunning

InjectByNameStep(max) ==
    /\ steps < max
    /\ \E d \in Dependencies, n \in Names :
         \E o \in InjectByName(Cur, nextId, d, n) :
            /\ Becomes("InjectByName", n, "", d, o)
            /\ lastName' = IF d = NilVal THEN lastName ELSE Put(lastName, n, d)
            /\ sinceName' = IF d = NilVal THEN sinceName ELSE Put(sinceName, n, FreshHistory)
            /\ asked' = asked
            /\ TypeHistoryUnchanged

ResolveStep(max) ==
    /\ steps < max
    /\ \E n \in Names :
         \E o \in Resolve(Cur, nextId, n) :
            /\ Becomes("Resolve", n, "", NilVal, o)
            /\ lastName' = lastName
            /\ sinceName' = [m \in DOMAIN sinceName |->
                               IF m = n
                               THEN Seen(sinceName[m],
                                         IF Succeeded(o) THEN <<o.val>> ELSE <<>>,
                                         CallsForName(o.log, m))
                               ELSE sinceName[m]]
            /\ asked' = asked \cup (IF n \in DOMAIN factories THEN {factories[n].f} ELSE {})
            /\ TypeHistoryUnchanged

MustResolveStep(max) ==
    /\ steps < max
    /\ \E n \in Names :
         \E o \in MustResolve(Cur, nextId, n) :
            /\ Becomes("MustResolve", n, "", NilVal, o)
            /\ lastName' = lastName
            /\ sinceName' = [m \in DOMAIN sinceName |->
                               IF m = n
                               THEN Seen(sinceName[m],
                                         IF Succeeded(o) THEN <<o.val>> ELSE <<>>,
                                         CallsForName(o.log, m))
                               ELSE sinceName[m]]
            /\ asked' = asked \cup (IF n \in DOMAIN factories THEN {factories[n].f} ELSE {})
            /\ TypeHistoryUnchanged

InjectStep(max) ==
    /\ steps < max
    /\ \E d \in Dependencies :
         \E o \in Inject(Cur, nextId, d) :
            /\ Becomes("Inject", <<>>, KeyOf(d), d, o)
            /\ lastType' = IF KeyOf(d) = "" THEN lastType ELSE Put(lastType, KeyOf(d), d)
            /\ sinceType' = IF KeyOf(d) = "" THEN sinceType
                            ELSE Put(sinceType, KeyOf(d), FreshHistory)
            /\ asked' = asked
            /\ NameHistoryUnchanged

ResolveByTypeNameStep(max) ==
    /\ steps < max
    /\ \E n \in BareNames :
         \E o \in ResolveByTypeName(Cur, nextId, n) :
            /\ Becomes("ResolveByTypeName", n, "", NilVal, o)
            /\ TypeHistoryAfter(Observe("ResolveByTypeName", n, "", NilVal, o))
            /\ NameHistoryUnchanged

TypeResolveStep(max) ==
    /\ steps < max
    /\ \E t \in Types :
         \E o \in TypeResolve(Cur, nextId, t) :
            /\ Becomes("For.Resolve", <<>>, t, NilVal, o)
            /\ TypeHistoryAfter(Observe("For.Resolve", <<>>, t, NilVal, o))
            /\ NameHistoryUnchanged

TypeMustResolveStep(max) ==
    /\ steps < max
    /\ \E t \in Types :
         \E o \in TypeMustResolve(Cur, nextId, t) :
            /\ Becomes("For.MustResolve", <<>>, t, NilVal, o)
            /\ TypeHistoryAfter(Observe("For.MustResolve", <<>>, t, NilVal, o))
            /\ NameHistoryUnchanged

ResolveByTypeStep(max) ==
    /\ steps < max
    /\ \E t \in Types :
         \E o \in ResolveByType(Cur, nextId, t) :
            /\ Becomes("ResolveByType", <<>>, t, NilVal, o)
            /\ TypeHistoryAfter(Observe("ResolveByType", <<>>, t, NilVal, o))
            /\ NameHistoryUnchanged

MustResolveByTypeStep(max) ==
    /\ steps < max
    /\ \E t \in Types :
         \E o \in MustResolveByType(Cur, nextId, t) :
            /\ Becomes("MustResolveByType", <<>>, t, NilVal, o)
            /\ TypeHistoryAfter(Observe("MustResolveByType", <<>>, t, NilVal, o))
            /\ NameHistoryUnchanged

GetStep(max) ==
    /\ steps < max
    /\ \E t \in Types :
         \E o \in Get(Cur, nextId, t) :
            /\ Becomes("Get", <<>>, t, NilVal, o)
            /\ TypeHistoryAfter(Observe("Get", <<>>, t, NilVal, o))
            /\ NameHistoryUnchanged

MustStep(max) ==
    /\ steps < max
    /\ \E t \in Types :
         \E o \in Must(Cur, nextId, t) :
            /\ Becomes("Must", <<>>, t, NilVal, o)
            /\ TypeHistoryAfter(Observe("Must", <<>>, t, NilVal, o))
            /\ NameHistoryUnchanged

ResolveIntoStep(max) ==
    /\ steps < max
    /\ \E target \in Targets :
         \E o \in ResolveInto(Cur, nextId, target) :
            /\ Becomes("ResolveInto", <<>>, "", target, o)
            /\ TypeHistoryAfter(Observe("ResolveInto", <<>>, "", target, o))
            /\ NameHistoryUnchanged

InvokeStep(max) ==
    /\ steps < max
    /\ \E fn \in Invokables :
         \E o \in Invoke(Cur, nextId, fn) :
            /\ Becomes("Invoke", <<>>, "", fn, o)
            /\ TypeHistoryAfter(Observe("Invoke", <<>>, "", fn, o))
            /\ NameHistoryUnchanged

\* the whole container
Next ==
    \/ InjectByNameStep(MaxSteps)
    \/ ResolveStep(MaxSteps)
    \/ MustResolveStep(MaxSteps)
    \/ InjectStep(MaxSteps)
    \/ ResolveByTypeNameStep(MaxSteps)
    \/ TypeResolveStep(MaxSteps)
    \/ TypeMustResolveStep(MaxSteps)
    \/ ResolveByTypeStep(MaxSteps)
    \/ MustResolveByTypeStep(MaxSteps)
    \/ GetStep(MaxSteps)
    \/ MustStep(MaxSteps)
    \/ ResolveIntoStep(MaxSteps)
    \/ InvokeStep(MaxSteps)

Spec == Init /\ [][Next]_vars

\* the name path alone
NextName ==
    \/ InjectByNameStep(MaxNameSteps)
    \/ ResolveStep(MaxNameSteps)
    \/ MustResolveStep(MaxNameSteps)

SpecName == Init /\ [][NextName]_vars

\* the type path alone
NextType ==
    \/ InjectStep(MaxTypeSteps)
    \/ ResolveByTypeNameStep(MaxTypeSteps)
    \/ TypeResolveStep(MaxTypeSteps)
    \/ TypeMustResolveStep(MaxTypeSteps)
    \/ ResolveByTypeStep(MaxTypeSteps)
    \/ MustResolveByTypeStep(MaxTypeSteps)
    \/ GetStep(MaxTypeSteps)
    \/ MustStep(MaxTypeSteps)
    \/ ResolveIntoStep(MaxTypeSteps)
    \/ InvokeStep(MaxTypeSteps)

SpecType == Init /\ [][NextType]_vars

\* dependencies registered where factories resolve other entries
NestedDependencies ==
    {db1, dbStruct, Fn("NewDB"), Fn("NewGetter"), Fn("repoByName"), Fn("repoByType")}

\* InjectByName with the closures among the dependencies. A factory whose
\* body resolves the name it is registered under calls itself without end
\* (the container detects no cycle), so repoByName is never filed under the
\* name it resolves.
InjectByNameNested(max) ==
    /\ steps < max
    /\ \E d \in NestedDependencies, n \in Names :
         /\ ~(d = Fn("repoByName") /\ n = DatabaseName)
         /\ \E o \in InjectByName(Cur, nextId, d, n) :
               /\ Becomes("InjectByName", n, "", d, o)
               /\ lastName' = Put(lastName, n, d)
               /\ sinceName' = Put(sinceName, n, FreshHistory)
               /\ asked' = asked
               /\ TypeHistoryUnchanged

\* Inject with the closures among the dependencies
InjectNested(max) ==
    /\ steps < max
    /\ \E d \in NestedDependencies :
         \E o \in Inject(Cur, nextId, d) :
            /\ Becomes("Inject", <<>>, KeyOf(d), d, o)
            /\ lastType' = Put(lastType, KeyOf(d), d)
            /\ sinceType' = Put(sinceType, KeyOf(d), FreshHistory)
            /\ asked' = asked
            /\ NameHistoryUnchanged

\* registration and resolution where factories resolve other entries
NextNested ==
    \/ InjectByNameNested(MaxNestedSteps)
    \/ InjectNested(MaxNestedSteps)
    \/ ResolveStep(MaxNestedSteps)
    \/ MustResolveStep(MaxNestedSteps)
    \/ TypeResolveStep(MaxNestedSteps)
    \/ TypeMustResolveStep(MaxNestedSteps)

SpecNested == Init /\ [][NextNested]_vars

----------------------------------------------------------------------------
(* Resolve and ResolveByTypeName run by several goroutines on one Injector.
   The container takes no lock, so each map access and the factory call of
   a resolution is a step of its own, and the steps of the goroutines
   interleave.  Registration is done by the main goroutine before the others
   start. *)

\* dependencies registered before the goroutines start
StartupDependencies == {db1, Fn("NewDB"), Fn("NewDatabase"), Fn("NewGetter")}

AllIdle == \A t \in Threads : threads[t].pc = "idle"

\* goroutine t is at pc and the process is running
At(t, pc) == ~fatal /\ threads[t].pc = pc

\* goroutine t moves on as th; nothing but the named variables changes
Moves(t, th) ==
    /\ threads' = [threads EXCEPT ![t] = th]
    /\ UNCHANGED <<steps, ret, lastName, lastType, sinceName, sinceType, asked, named,
                   strict, run>>

\* goroutine t returns val, err or leaves by the panic pan
Finished(t, val, err, pan) ==
    [threads[t] EXCEPT !.pc = "done", !.val = val, !.err = err, !.pan = pan]

\* InjectByName at startup
InjectByNameAtStartup(max) ==
    /\ steps < max /\ AllIdle /\ ~fatal
    /\ \E d \in StartupDependencies, n \in Names :
         \E o \in InjectByName(Cur, nextId, d, n) :
            /\ Becomes("InjectByName", n, "", d, o)
            /\ lastName' = Put(lastName, n, d)
            /\ sinceName' = Put(sinceName, n, FreshHistory)
            /\ asked' = asked
            /\ TypeHistoryUnchanged

\* Inject at startup
InjectAtStartup(max) ==
    /\ steps < max /\ AllIdle /\ ~fatal
    /\ \E d \in StartupDependencies :
         \E o \in Inject(Cur, nextId, d) :
            /\ Becomes("Inject", <<>>, KeyOf(d), d, o)
            /\ lastType' = Put(lastType, KeyOf(d), d)
            /\ sinceType' = Put(sinceType, KeyOf(d), FreshHistory)
            /\ asked' = asked
            /\ NameHistoryUnchanged

\* go i.Resolve(name)
GoResolve(t) ==
    /\ At(t, "idle")
    /\ \E n \in Names :
         Moves(t, [Idle EXCEPT !.pc = "check", !.op = "Resolve", !.key = n])
    /\ UNCHANGED <<dependencies, factories, typeRegistry, nextId, calls, fatal>>

\* go i.ResolveByTypeName(typeName)
GoResolveByTypeName(t) ==
    /\ At(t, "idle")
    /\ \E n \in BareNames :
         Moves(t, [Idle EXCEPT !.pc = "scan", !.op = "ResolveByTypeName", !.key = n])
    /\ UNCHANGED <<dependencies, factories, typeRegistry, nextId, calls, fatal>>

\* Resolve: if dep, exists := i.dependencies[name]; exists { return dep, nil }
CheckInstances(t) ==
    /\ At(t, "check")
    /\ IF threads[t].key \in DOMAIN dependencies
       THEN Moves(t, Finished(t, dependencies[threads[t].key], NilErr, NoPanic))
       ELSE Moves(t, [threads[t] EXCEPT !.pc = "lookup"])
    /\ UNCHANGED <<dependencies, factories, typeRegistry, nextId, calls, fatal>>

\* Resolve: if factory, exists := i.factories[name]; exists { ... }; a name
\* without a factory goes to the not-found error
LookupFactory(t) ==
    /\ At(t, "lookup")
    /\ IF threads[t].key \in DOMAIN factories
       THEN Moves(t, [threads[t] EXCEPT !.pc = "call", !.f = factories[threads[t].key].f])
       ELSE Moves(t, Finished(t, NilVal, Errorf(NotFoundFormat, <<threads[t].key>>),
                              NoPanic))
    /\ UNCHANGED <<dependencies, factories, typeRegistry, nextId, calls, fatal>>

\* ResolveByTypeName: the range over i.typeRegistry up to the first key
\* with the bare name, and the Kind() test of the entry found there
ScanTypes(t) ==
    /\ At(t, "scan")
    /\ IF KeysNamed(Cur, threads[t].key) = {}
       THEN Moves(t, Finished(t, NilVal, Errorf(NoTypeNameFormat, <<threads[t].key>>),
                              NoPanic))
       ELSE \E r \in KeysNamed(Cur, threads[t].key) :
               IF IsFunc(typeRegistry[r])
               THEN Moves(t, [threads[t] EXCEPT !.pc = "call", !.slot = r,
                                                !.f = typeRegistry[r].f])
               ELSE Moves(t, [Finished(t, typeRegistry[r], NilErr, NoPanic)
                                 EXCEPT !.slot = r])
    /\ UNCHANGED <<dependencies, factories, typeRegistry, nextId, calls, fatal>>

\* what the caller gets when the factory returned no values
NoResultError(th) ==
    IF th.op = "Resolve" THEN Errorf(NotFoundFormat, <<th.key>>)
    ELSE Errorf(NoValuesFormat, <<>>)

\* results := factory.Call([]reflect.Value{}), and instance :=
\* results[0].Interface() when there is a result
CallFactory(t) ==
    /\ At(t, "call")
    /\ \E c \in CallNoArgs(threads[t].f, Cur, nextId) :
         /\ nextId' = c.next
         /\ calls' = [calls EXCEPT ![threads[t].f] = @ + (IF c.ran THEN 1 ELSE 0)]
         /\ IF c.panicked
            THEN Moves(t, Finished(t, NilVal, NilErr, c.pan))
            ELSE IF Len(c.results) = 0
            THEN Moves(t, [Finished(t, NilVal, NoResultError(threads[t]), NoPanic)
                             EXCEPT !.invoked = TRUE])
            ELSE Moves(t, [threads[t] EXCEPT !.pc = "store", !.invoked = TRUE,
                                             !.instance = c.results[1]])
    /\ UNCHANGED <<dependencies, factories, typeRegistry, fatal>>

\* another goroutine is about to read or write the map that th writes
Racing(t) ==
    \E u \in Threads \ {t} :
       IF threads[t].op = "Resolve" THEN threads[u].pc \in {"check", "store"}
                                             /\ threads[u].op = "Resolve"
       ELSE threads[u].pc = "scan"
               \/ (threads[u].pc = "store" /\ threads[u].op = "ResolveByTypeName")

\* a faulty variant of Stored:
\* an instance already cached is kept and returned
Stored_keepFirst(m, k, instance) ==
    IF k \in DOMAIN m /\ ~IsFunc(m[k]) THEN [map |-> m, val |-> m[k]]
    ELSE [map |-> Put(m, k, instance), val |-> instance]

\* i.dependencies[name] = instance (i.typeRegistry[depType] = instance);
\* return instance, nil
Stored(m, k, instance) == [map |-> Put(m, k, instance), val |-> instance]

\* the map write and the return. A write that is concurrent with another
\* goroutine's access to the same map is a data race: the Go runtime may
\* stop the process (fatal error: concurrent map writes), or the write goes
\* through.
StoreInstance(t) ==
    /\ At(t, "store")
    /\ \/ /\ LET th == threads[t]
                  w == IF th.op = "Resolve"
                       THEN Stored(dependencies, th.key, th.instance)
                       ELSE Stored(typeRegistry, th.slot, th.instance)
              IN  /\ dependencies' = IF th.op = "Resolve" THEN w.map ELSE dependencies
                  /\ typeRegistry' = IF th.op = "Resolve" THEN typeRegistry ELSE w.map
                  /\ Moves(t, Finished(t, w.val, NilErr, NoPanic))
          /\ UNCHANGED <<factories, nextId, calls, fatal>>
       \/ /\ Racing(t)
          /\ fatal' = TRUE
          /\ UNCHANGED <<dependencies, factories, typeRegistry, nextId, steps, ret,
                         lastName, lastType, sinceName, sinceType, calls, asked,
                         threads, named, strict, run>>

\* registration at startup, then concurrent resolution
NextConcurrent ==
    \/ InjectByNameAtStartup(MaxRegistrations)
    \/ InjectAtStartup(MaxRegistrations)
    \/ \E t \in Threads : GoResolve(t)
    \/ \E t \in Threads : GoResolveByTypeName(t)
    \/ \E t \in Threads : CheckInstances(t)
    \/ \E t \in Threads : LookupFactory(t)
    \/ \E t \in Threads : ScanTypes(t)
    \/ \E t \in Threads : CallFactory(t)
    \/ \E t \in Threads : StoreInstance(t)

SpecConcurrent == Init /\ [][NextConcurrent]_vars

----------------------------------------------------------------------------
(* getTypeName applied to display strings. *)

InitGetTypeName ==
    /\ InitInjector
    /\ \E s \in DisplayStrings : named = [Unnamed EXCEPT !.shown = s]
    /\ strict = StrictNew
    /\ run = NotRunning

\* i.getTypeName(t) for a type t whose String() is named.shown
GetTypeNameStep ==
    /\ ~named.applied
    /\ named' = [named EXCEPT !.bare = TrimmedName(named.shown), !.applied = TRUE]
    /\ UNCHANGED <<dependencies, factories, typeRegistry, nextId, steps, ret,
                   lastName, lastType, sinceName, sinceType, calls, asked, threads,
                   fatal, strict, run>>

SpecGetTypeName == InitGetTypeName /\ [][GetTypeNameStep]_vars

----------------------------------------------------------------------------
(* The validating Injector: New, Inject(name, source) error, Get(name). *)

errInjectorNameCannotBeEmpty == Errorf(<<"injector: name cannot be empty">>, <<>>)
errInjectorSourceCannotBeNil == Errorf(<<"injector: source cannot be nil">>, <<>>)

StrictNotFoundFormat == <<"dependency ", "%s", " ", "not found">>

\* a faulty variant of StrictInject:
\* the source is checked before the name
StrictInject_sourceFirst(deps, name, source) ==
    IF source = NilVal THEN [dependencies |-> deps, err |-> errInjectorSourceCannotBeNil]
    ELSE IF name = <<>> THEN [dependencies |-> deps, err |-> errInjectorNameCannotBeEmpty]
    ELSE [dependencies |-> deps, err |-> NilErr]

\* a faulty variant of StrictInject:
\* a valid source is stored under the name
StrictInject_storing(deps, name, source) ==
    IF name = <<>> THEN [dependencies |-> deps, err |-> errInjectorNameCannotBeEmpty]
    ELSE IF source = NilVal
    THEN [dependencies |-> deps, err |-> errInjectorSourceCannotBeNil]
    ELSE [dependencies |-> Put(deps, name, source), err |-> NilErr]

\* Injector.Inject(name, source): the map it leaves and the error it
\* returns; name == "" is tested first, then source == nil (true of the nil
\* interface only, not of a nil pointer held in the interface)
StrictInject(deps, name, source) ==
    IF name = <<>> THEN [dependencies |-> deps, err |-> errInjectorNameCannotBeEmpty]
    ELSE IF source = NilVal
    THEN [dependencies |-> deps, err |-> errInjectorSourceCannotBeNil]
    ELSE [dependencies |-> deps, err |-> NilErr]

\* Injector.Get(name): _, ok := i.dependencies[name]; the value returned is
\* nil on both paths
StrictGet(deps, name) ==
    IF name \notin DOMAIN deps
    THEN [val |-> NilVal, err |-> Errorf(StrictNotFoundFormat, <<name>>)]
    ELSE [val |-> NilVal, err |-> NilErr]

\* names and sources passed to the validating Injector
StrictNames == {<<>>, <<"d", "b">>, <<"u">>}
StrictSources == {NilVal, db1, Fn("NewDB"), NilPtrTo("PD")}

\* everything but strict stays as it is
OnlyStrict ==
    UNCHANGED <<dependencies, factories, typeRegistry, nextId, steps, ret, lastName,
                lastType, sinceName, sinceType, calls, asked, threads, fatal, named,
                run>>

StrictInjectStep ==
    /\ strict.made < MaxStrictSteps
    /\ \E n \in StrictNames, src \in StrictSources :
         LET o == StrictInject(strict.dependencies, n, src)
         IN  strict' = [dependencies |-> o.dependencies,
                        injected |-> IF o.err.isNil THEN strict.injected \cup {n}
                                     ELSE strict.injected,
                        op |-> "Inject", name |-> n, source |-> src,
                        val |-> NilVal, err |-> o.err, made |-> strict.made + 1]
    /\ OnlyStrict

StrictGetStep ==
    /\ strict.made < MaxStrictSteps
    /\ \E n \in StrictNames :
         LET o == StrictGet(strict.dependencies, n)
         IN  strict' = [strict EXCEPT !.op = "Get", !.name = n, !.source = NilVal,
                                      !.val = o.val, !.err = o.err, !.made = @ + 1]
    /\ OnlyStrict

NextStrict == StrictInjectStep \/ StrictGetStep

SpecStrict == Init /\ [][NextStrict]_vars

----------------------------------------------------------------------------
(* A call run statement by statement.  A factory's body may call back into
   the Injector (MustResolve, MustResolveByType), so a resolution in
   progress is a frame on the goroutine's stack: it looks its entry up,
   calls the factory, waits while the resolution made by the body runs in
   the frame above it, stores the product and returns.  Nothing in the
   package recovers, so a panic unwinds every frame.  The container keeps
   no record of the resolutions in progress. *)

\* dependencies registered before the calls
CallDependencies ==
    {db1, Fn("NewDB"), Fn("NewGetter"), Fn("repoByName"), Fn("repoByType")}

\* a resolution that has just been called
Frame(op, name, type, arg) ==
    [op |-> op, name |-> name, type |-> type, arg |-> arg, pc |-> "enter",
     slot |-> "", f |-> "", instance |-> NilVal, args |-> <<>>,
     val |-> NilVal, err |-> NilErr]

\* the calls made on the Injector from outside
TopCalls ==
    {Frame(op, n, "", NilVal) : op \in {"Resolve", "MustResolve"}, n \in Names}
      \cup {Frame("For.Resolve", <<>>, t, NilVal) : t \in {"PD", "PU", "SD"}}
      \cup {Frame("For.MustResolve", <<>>, t, NilVal) : t \in {"PD", "PU"}}
      \cup {Frame("ResolveInto", <<>>, "", tg) : tg \in {PtrTo("PU"), PtrTo("SD")}}
      \cup {Frame("Invoke", <<>>, "", Callback(cb)) : cb \in {"useRepo", "repoThenDB"}}

ByName(op) == op \in {"Resolve", "MustResolve"}
Generic(op) == op \in {"For.Resolve", "For.MustResolve"}
IsMust(op) == op \in {"MustResolve", "For.MustResolve"}

\* the resolution the goroutine is executing
Top == run.stack[Len(run.stack)]

\* the resolution a closure makes from its body (none for a plain function)
Inner(f) ==
    CASE f = "repoByName" -> <<Frame("MustResolve", DatabaseName, "", NilVal)>>
      [] f = "repoByType" -> <<Frame("For.MustResolve", <<>>, "PD", NilVal)>>
      [] OTHER -> <<>>

\* the run with its top frame replaced by fr
WithTop(fr) == [run EXCEPT !.stack[Len(run.stack)] = fr]

\* the top frame has reached a return statement with val, err
Leaves(val, err) == WithTop([Top EXCEPT !.pc = "ret", !.val = val, !.err = err])

\* a panic leaves every frame of the stack
Panics(pan) == [run EXCEPT !.status = "panicked", !.stack = <<>>, !.pan = pan]

\* history: the function of frame fr has been called for fr's key
Entered(r, fr) ==
    [r EXCEPT !.enteredNames = IF ByName(fr.op) THEN @ \cup {fr.name} ELSE @,
              !.enteredTypes = IF ByName(fr.op) THEN @ ELSE @ \cup {fr.slot}]

\* history: the function called for fr's key has returned instance
Made(r, fr, instance) ==
    [r EXCEPT !.madeByName = IF ByName(fr.op) THEN Put(@, fr.name, instance) ELSE @,
              !.madeByType = IF ByName(fr.op) THEN @ ELSE Put(@, fr.slot, instance)]

\* the run goes on as r; nothing the whole-call actions record changes
Runs(r) ==
    /\ run' = r
    /\ UNCHANGED <<steps, ret, lastName, lastType, sinceName, sinceType, asked,
                   threads, fatal, named, strict>>

\* InjectByName before the calls; a closure may be filed under the very
\* name its body resolves
InjectByNameBeforeCalls ==
    /\ run.status = "idle"
    /\ steps + run.made < MaxCallSteps
    /\ \E d \in CallDependencies, n \in Names :
         \E o \in InjectByName(Cur, nextId, d, n) :
            /\ Becomes("InjectByName", n, "", d, o)
            /\ lastName' = Put(lastName, n, d)
            /\ sinceName' = Put(sinceName, n, FreshHistory)
            /\ asked' = asked
            /\ TypeHistoryUnchanged

\* Inject before the calls
InjectBeforeCalls ==
    /\ run.status = "idle"
    /\ steps + run.made < MaxCallSteps
    /\ \E d \in CallDependencies :
         \E o \in Inject(Cur, nextId, d) :
            /\ Becomes("Inject", <<>>, KeyOf(d), d, o)
            /\ lastType' = Put(lastType, KeyOf(d), d)
            /\ sinceType' = Put(sinceType, KeyOf(d), FreshHistory)
            /\ asked' = asked
            /\ NameHistoryUnchanged

\* a call from outside, made when none is in progress
BeginCall ==
    /\ run.status \in {"idle", "returned", "panicked"}
    /\ steps + run.made < MaxCallSteps
    /\ \E fr \in TopCalls :
         Runs([NotRunning EXCEPT !.status = "running", !.stack = <<fr>>,
                                 !.op = fr.op, !.name = fr.name, !.type = fr.type,
                                 !.arg = fr.arg, !.made = run.made + 1,
                                 !.before = Cur, !.start = nextId, !.deepest = 1])
    /\ UNCHANGED <<dependencies, factories, typeRegistry, nextId, calls>>

\* Resolve up to the factory call: the instance map first, then the
\* factory map, else the not-found error
EnterByName(fr) ==
    IF fr.name \in DOMAIN dependencies
    THEN {Leaves(dependencies[fr.name], NilErr)}
    ELSE IF fr.name \in DOMAIN factories
    THEN {WithTop([fr EXCEPT !.pc = "call", !.f = factories[fr.name].f])}
    ELSE {Leaves(NilVal, Errorf(NotFoundFormat, <<fr.name>>))}

\* the registered keys a lookup of type t selects: the exact key, else any
\* key the scan by bare name can stop at
Slots(t) ==
    IF t \in DOMAIN typeRegistry THEN {t} ELSE KeysNamed(Cur, getTypeName(t))

\* instance.(T) at the end of resolveDependency
Cast(instance, T) ==
    IF AssignableTo(instance, T) THEN Leaves(instance, NilErr)
    ELSE Leaves(Zero(T), Errorf(MismatchFormat, <<TypeString(T)>>))

\* For[T].Resolve up to the factory call
EnterGeneric(fr) ==
    IF Slots(fr.type) = {}
    THEN {Leaves(Zero(fr.type), Errorf(NoTypeFormat, <<TypeString(fr.type)>>))}
    ELSE { IF typeRegistry[r] = NilVal THEN Panics(PanicRuntime)
           ELSE IF IsFunc(typeRegistry[r])
           THEN WithTop([fr EXCEPT !.pc = "call", !.slot = r, !.f = typeRegistry[r].f])
           ELSE Cast(typeRegistry[r], fr.type)
           : r \in Slots(fr.type) }

\* the end of ResolveInto for a resolved instance
Sets(instance, elemType) ==
    LET o == StoreInto(Outcome(Cur, nextId, instance, NilErr, NoPanic, <<>>, <<>>),
                       elemType)
    IN  IF o.pan.kind # "none" THEN Panics(o.pan)
        ELSE [Leaves(NilVal, o.err) EXCEPT !.wrote = o.wrote, !.written = o.written]

\* ResolveInto up to the factory call
EnterInto(fr) ==
    IF fr.arg = NilVal
    THEN {Leaves(NilVal, Errorf(TargetNilFormat, <<>>))}
    ELSE IF fr.arg.k # "ptr" \/ fr.arg.isNil
    THEN {Leaves(NilVal, Errorf(TargetNotPtrFormat, <<>>))}
    ELSE IF Slots(fr.arg.elem) = {}
    THEN {Leaves(NilVal, Errorf(NoTypeFormat, <<TypeString(fr.arg.elem)>>))}
    ELSE { IF typeRegistry[r] = NilVal THEN Panics(PanicRuntime)
           ELSE IF IsFunc(typeRegistry[r])
           THEN WithTop([fr EXCEPT !.pc = "call", !.slot = r, !.f = typeRegistry[r].f])
           ELSE Sets(typeRegistry[r], fr.arg.elem)
           : r \in Slots(fr.arg.elem) }

\* Invoke up to the next factory call: the parameters still to resolve,
\* then fv.Call(args) and the error it may return
EnterInvoke(fr) ==
    IF fr.arg = NilVal
    THEN {Leaves(NilVal, Errorf(FnNilFormat, <<>>))}
    ELSE IF fr.arg.k # "cb"
    THEN {Leaves(NilVal, Errorf(FnNotFuncFormat, <<>>))}
    ELSE IF Len(fr.args) = Len(Params(fr.arg.f))
    THEN { IF CallWith(fr.arg.f, fr.args).panicked THEN Panics(PanicRuntime)
           ELSE [Leaves(NilVal, PropagateError(CallbackOuts(fr.arg.f),
                                               CallWith(fr.arg.f, fr.args).results))
                   EXCEPT !.called = 1] }
    ELSE LET pType == Params(fr.arg.f)[Len(fr.args) + 1]
         IN  IF Slots(pType) = {}
             THEN {Leaves(NilVal, Errorf(NoParamFormat, <<TypeString(pType)>>))}
             ELSE { IF typeRegistry[r] = NilVal THEN Panics(PanicRuntime)
                    ELSE IF IsFunc(typeRegistry[r])
                    THEN WithTop([fr EXCEPT !.pc = "call", !.slot = r,
                                            !.f = typeRegistry[r].f])
                    ELSE WithTop([fr EXCEPT !.args = Append(@, typeRegistry[r])])
                    : r \in Slots(pType) }

\* the statements of the top frame up to its factory call or its return
Enter ==
    /\ run.status = "running" /\ Top.pc = "enter"
    /\ \E r \in (CASE ByName(Top.op) -> EnterByName(Top)
                   [] Generic(Top.op) -> EnterGeneric(Top)
                   [] Top.op = "ResolveInto" -> EnterInto(Top)
                   [] OTHER -> EnterInvoke(Top)) :
         Runs(r)
    /\ UNCHANGED <<dependencies, factories, typeRegistry, nextId, calls>>

\* what the frame returns when its factory returned no values
NoResult(fr) ==
    IF ByName(fr.op) THEN Leaves(NilVal, Errorf(NotFoundFormat, <<fr.name>>))
    ELSE IF Generic(fr.op) THEN Leaves(Zero(fr.type), Errorf(NoValuesFormat, <<>>))
    ELSE Leaves(NilVal, Errorf(NoValuesFormat, <<>>))

\* factory.Call([]reflect.Value{}): a plain function runs to its return; a
\* closure runs up to the resolution its body makes, which goes on the
\* stack above it; the runtime stops the process when the stack is full
Call ==
    /\ run.status = "running" /\ Top.pc = "call"
    /\ IF NumIn(Top.f) = 0 /\ Inner(Top.f) # <<>>
       THEN /\ IF Len(run.stack) = MaxDepth
               THEN Runs([Entered(run, Top) EXCEPT !.status = "overflow"])
               ELSE Runs([Entered(WithTop([Top EXCEPT !.pc = "body"]), Top)
                            EXCEPT !.stack = @ \o Inner(Top.f),
                                   !.deepest = IF Len(run.stack) + 1 > @
                                               THEN Len(run.stack) + 1 ELSE @])
            /\ calls' = [calls EXCEPT ![Top.f] = @ + 1]
            /\ nextId' = nextId
       ELSE \E c \in CallNoArgs(Top.f, Cur, nextId) :
               /\ nextId' = c.next
               /\ calls' = [calls EXCEPT ![Top.f] = @ + (IF c.ran THEN 1 ELSE 0)]
               /\ IF c.panicked THEN Runs(Panics(c.pan))
                  ELSE IF Len(c.results) = 0 THEN Runs(Entered(NoResult(Top), Top))
                  ELSE Runs(Made(Entered(WithTop([Top EXCEPT !.pc = "store",
                                                             !.instance = c.results[1]]),
                                         Top),
                                 Top, c.results[1]))
    /\ UNCHANGED <<dependencies, factories, typeRegistry>>

\* a faulty variant of Cached:
\* the product is handed on without being stored
Cached_notStored(m, k, instance) == m

\* i.dependencies[name] = instance (i.typeRegistry[depType] = instance)
Cached(m, k, instance) == Put(m, k, instance)

\* the cache write of the top frame and the statements after it, up to the
\* return (Invoke: up to the next parameter)
Store ==
    /\ run.status = "running" /\ Top.pc = "store"
    /\ dependencies' = IF ByName(Top.op)
                       THEN Cached(dependencies, Top.name, Top.instance)
                       ELSE dependencies
    /\ typeRegistry' = IF ByName(Top.op) THEN typeRegistry
                       ELSE Cached(typeRegistry, Top.slot, Top.instance)
    /\ Runs(CASE ByName(Top.op) -> Leaves(Top.instance, NilErr)
              [] Generic(Top.op) -> Cast(Top.instance, Top.type)
              [] Top.op = "ResolveInto" -> Sets(Top.instance, Top.arg.elem)
              [] OTHER -> WithTop([Top EXCEPT !.pc = "enter", !.slot = "", !.f = "",
                                              !.instance = NilVal,
                                              !.args = Append(@, Top.instance)]))
    /\ UNCHANGED <<factories, nextId, calls>>

\* the return of the top frame: MustResolve panics on an error; the
\* outermost frame returns to the caller; any other returns into the body
\* of the closure below it, which goes on to its own return
Unwind ==
    /\ run.status = "running" /\ Top.pc = "ret"
    /\ IF IsMust(Top.op) /\ ~Top.err.isNil
       THEN Runs(Panics(PanicErr(Top.err))) /\ nextId' = nextId
       ELSE IF Len(run.stack) = 1
       THEN /\ Runs([run EXCEPT !.status = "returned", !.stack = <<>>,
                                !.val = Top.val, !.err = Top.err])
            /\ nextId' = nextId
       ELSE LET below == run.stack[Len(run.stack) - 1]
                b == RepoFrom(below.f, Outcome(Cur, nextId, Top.val, NilErr, NoPanic,
                                               <<>>, <<>>))
            IN  /\ nextId' = b.next
                /\ IF b.pan.kind # "none" THEN Runs(Panics(b.pan))
                   ELSE Runs(Made([run EXCEPT !.stack =
                                      Append(SubSeq(@, 1, Len(@) - 2),
                                             [below EXCEPT !.pc = "store",
                                                           !.instance = b.results[1]])],
                                  below, b.results[1]))
    /\ UNCHANGED <<dependencies, factories, typeRegistry, calls>>

\* the goroutine executes its next statement
Proceed == Enter \/ Call \/ Store \/ Unwind

\* registration, then calls run statement by statement
NextCallStack ==
    \/ InjectByNameBeforeCalls
    \/ InjectBeforeCalls
    \/ BeginCall
    \/ Enter
    \/ Call
    \/ Store
    \/ Unwind

\* a goroutine that can execute its next statement does so
SpecCallStack == Init /\ [][NextCallStack]_vars /\ WF_vars(Proceed)

----------------------------------------------------------------------------
(* Vocabulary of the properties. *)

\* a factory in the sense of the glossary: no parameters, one result
IsFactory(d) == IsFunc(d) /\ NumIn(d.f) = 0 /\ Len(OutTypes(d.f)) = 1

\* v is a result of a call of function f
ProducedBy(v, f) ==
    \/ v.k = "obj" /\ v.by = f
    \/ v.k = "fn" /\ MadeBy(v.f) = f

\* v is the registered dependency d itself, or was produced by d, or by a
\* function that d produced
ComesFrom(v, d) ==
    \/ v = d
    \/ /\ IsFunc(d)
       /\ \/ ProducedBy(v, d.f)
          \/ \E g \in FuncNames : MadeBy(g) = d.f /\ ProducedBy(v, g)

NameOps == {"Resolve", "MustResolve"}
GenericOps == {"For.Resolve", "ResolveByType", "Get"}
GenericMustOps == {"For.MustResolve", "MustResolveByType", "Must"}
TypeOps == GenericOps \cup GenericMustOps \cup {"ResolveByTypeName", "ResolveInto", "Invoke"}

RetOk == ret.pan.kind = "none" /\ ret.err.isNil

\* the values the last type-path call handed out, one per selected key
Handed ==
    CASE ret.op = "ResolveInto" -> IF ret.wrote THEN <<ret.written>> ELSE <<>>
      [] ret.op = "Invoke" -> IF Len(ret.args) = Len(ret.sel) THEN ret.args ELSE <<>>
      [] OTHER -> IF RetOk THEN <<ret.val>> ELSE <<>>

----------------------------------------------------------------------------
(* C1 .. C10 *)

\* C1: name path singleton. Once a factory has been registered under a
\* name with InjectByName, every later Resolve/MustResolve of that name
\* (until the name is registered again) returns one and the same instance,
\* and the factory has been called exactly once.
C1_NameSingleton ==
    \A n \in DOMAIN lastName :
        (IsFactory(lastName[n]) /\ sinceName[n].resolves >= 1)
            => /\ sinceName[n].got
               /\ sinceName[n].same
               /\ sinceName[n].inv = 1

\* C2: type path singleton. Once a factory has been registered by Inject
\* under its return type T, every resolution that asks for T (For[T],
\* ResolveByType[T], ResolveByTypeName(bare name of T), ResolveInto(&T
\* variable), Invoke of a function with a T parameter) yields one and the
\* same instance, and the factory is called at most once.
C2_TypeSingleton ==
    \A t \in DOMAIN lastType :
        IsFactory(lastType[t])
            => /\ sinceType[t].same
               /\ sinceType[t].inv <= 1

\* C3: name path override. A successful Resolve(name) returns the
\* dependency most recently registered under name: that instance, or a
\* value produced by that factory.
C3_NameOverride ==
    (ret.op = "Resolve" /\ RetOk /\ ret.name \in DOMAIN lastName)
        => IF IsFunc(lastName[ret.name])
           THEN ProducedBy(ret.val, lastName[ret.name].f)
           ELSE ret.val = lastName[ret.name]

\* C4: type path override. The type registry holds exactly one entry for
\* each key something was injected under, that entry is the dependency most
\* recently injected under the key or a value that comes from it, and every
\* value a type resolution hands out for a key comes from the dependency
\* most recently injected under that key.
C4_TypeOverride ==
    /\ DOMAIN typeRegistry = DOMAIN lastType
    /\ \A k \in DOMAIN typeRegistry : ComesFrom(typeRegistry[k], lastType[k])
    /\ ret.op \in TypeOps =>
          \A i \in 1..Len(Handed) : ComesFrom(Handed[i], lastType[ret.sel[i]])

\* a type resolution that returns an instance injected over a cached
\* factory product of the same key
C4_Witness ==
    /\ ret.op = "For.Resolve" /\ ret.type = "PD" /\ RetOk
    /\ ret.val = db2
    /\ lastType["PD"] = db2
    /\ calls["NewDB"] = 1

\* C5: instance passthrough. When the dependency most recently registered
\* under a key is a plain (non-function) instance v, Resolve(name), and
\* For[T].Resolve / ResolveByType[T] for v's type T, return exactly v, call
\* nothing and leave the registry maps unchanged.
C5_InstancePassthrough ==
    /\ (ret.op = "Resolve" /\ ret.name \in DOMAIN lastName
            /\ ~IsFunc(lastName[ret.name]))
          => /\ RetOk /\ ret.val = lastName[ret.name]
             /\ ret.log = <<>> /\ ~ret.changed
    /\ (ret.op \in {"For.Resolve", "ResolveByType"} /\ ret.type \in DOMAIN lastType
            /\ ~IsFunc(lastType[ret.type]))
          => /\ RetOk /\ ret.val = lastType[ret.type]
             /\ ret.log = <<>> /\ ~ret.changed

\* an instance registered after a factory of the same name is resolved
C5_Witness ==
    /\ ret.op = "Resolve" /\ ret.val = db1 /\ lastName[ret.name] = db1
    /\ ret.name \in DOMAIN factories

\* C6: factory laziness. InjectByName and Inject call nothing; a
\* resolution calls only functions found in the slot it asked for (the
\* name, the exact type, or a type with the same bare name); and a
\* registered function has been called only if some resolution asked for
\* a slot that held it.
C6_FactoryLaziness ==
    /\ ret.op \in {"InjectByName", "Inject"} => ret.log = <<>>
    /\ ret.op \in NameOps =>
          \A i \in 1..Len(ret.log) : ret.log[i].reg = "name" /\ ret.log[i].name = ret.name
    /\ ret.op \in TypeOps =>
          \A i \in 1..Len(ret.log) :
             /\ ret.log[i].reg = "type"
             /\ \E t \in Asked(ret) :
                   \/ ret.log[i].type = t
                   \/ getTypeName(ret.log[i].type) = getTypeName(t)
    /\ \A f \in FuncNames : (MadeBy(f) = "app" /\ calls[f] > 0) => f \in asked

\* a factory is registered and still uncalled after the resolution of
\* another name has called that name's factory
C6_Witness ==
    /\ ret.op = "Resolve" /\ ret.log # <<>>
    /\ \E n \in DOMAIN lastName :
          /\ n # ret.name
          /\ IsFactory(lastName[n])
          /\ calls[lastName[n].f] = 0

\* C7: not-found contract. Resolve of a name nothing was ever registered
\* under returns nil and an error whose message contains the name and the
\* text "not found", and changes no map.
C7_NotFound ==
    (ret.op = "Resolve" /\ ret.name \notin DOMAIN lastName)
        => /\ ret.pan.kind = "none"
           /\ ret.val = NilVal
           /\ ~ret.err.isNil
           /\ HasSub(ret.err.msg, ret.name)
           /\ HasSub(ret.err.msg, <<"not found">>)
           /\ ~ret.changed

\* a missing name is resolved while another name is registered
C7_Witness ==
    /\ ret.op = "Resolve" /\ ret.name \notin DOMAIN lastName
    /\ DOMAIN lastName # {}
    /\ ~ret.err.isNil

\* the outcome m of a Must call against the outcome o of the corresponding
\* error-returning call: the same registry effect and the same calls; a
\* panic carrying o's error exactly when o returns an error; o's value and
\* no panic when o returns none; o's own panic passed on
MustMatches(m, o) ==
    /\ m.st = o.st /\ m.next = o.next /\ m.log = o.log
    /\ (m.pan.kind = "error") = (o.pan.kind = "none" /\ ~o.err.isNil)
    /\ (o.pan.kind = "none" /\ ~o.err.isNil) => m.pan.err = o.err
    /\ (o.pan.kind = "none" /\ o.err.isNil) =>
          m.pan.kind = "none" /\ m.val = o.val /\ m.err.isNil
    /\ o.pan.kind # "none" => m.pan = o.pan

MustAgrees(musts, plains) ==
    /\ \A m \in musts : \E o \in plains : MustMatches(m, o)
    /\ \A o \in plains : \E m \in musts : MustMatches(m, o)

\* C8: in every reachable registry, MustResolve(name), For[T].MustResolve,
\* MustResolveByType[T] and Must[T] panic with an error exactly when
\* Resolve(name) / For[T].Resolve return an error, with that error as the
\* payload; otherwise they return the value Resolve returns; and they
\* leave the registry as Resolve leaves it.
C8_MustPanics ==
    /\ \A n \in Names :
          MustAgrees(MustResolve(Cur, nextId, n), Resolve(Cur, nextId, n))
    /\ \A t \in Types :
          /\ MustAgrees(TypeMustResolve(Cur, nextId, t), TypeResolve(Cur, nextId, t))
          /\ MustAgrees(MustResolveByType(Cur, nextId, t), TypeResolve(Cur, nextId, t))
          /\ MustAgrees(Must(Cur, nextId, t), TypeResolve(Cur, nextId, t))
    /\ (ret.op \in {"MustResolve"} \cup GenericMustOps) =>
          /\ ret.err.isNil
          /\ ret.pan.kind = "error" => ~ret.pan.err.isNil

\* MustResolve of a missing name has panicked with the not-found error
\* while another name resolves
C8_Witness ==
    /\ ret.op = "MustResolve" /\ ret.pan.kind = "error"
    /\ HasSub(ret.pan.err.msg, <<"not found">>)
    /\ \E n \in Names : \E o \in MustResolve(Cur, nextId, n) :
          o.pan.kind = "none" /\ o.val = db1

\* C9: Invoke wiring. When For[T].Resolve would succeed for every declared
\* parameter type T of fn, Invoke(fn) calls fn exactly once, with one
\* argument per parameter in declaration order, each of the parameter's
\* type and the instance held in the slot matched for it; parameters of the
\* same type receive the identical instance and no function is called twice.
C9_InvokeWiring ==
    (ret.op = "Invoke" /\ ret.arg.k = "cb" /\ ret.resolvable)
        => /\ ret.called = 1
           /\ Len(ret.args) = Len(Params(ret.arg.f))
           /\ Len(ret.sel) = Len(ret.args)
           /\ \A i \in 1..Len(ret.args) :
                 /\ AssignableTo(ret.args[i], Params(ret.arg.f)[i])
                 /\ ret.args[i] = typeRegistry[ret.sel[i]]
           /\ \A i, j \in 1..Len(ret.args) :
                 Params(ret.arg.f)[i] = Params(ret.arg.f)[j] => ret.args[i] = ret.args[j]
           /\ \A f \in FuncNames : CallsOf(ret.log, f) <= 1

\* C10: Invoke error propagation. After fn has been called, Invoke returns
\* fn's last result when its declared type is error and it is not nil, and
\* nil in every other case.
C10_InvokeError ==
    (ret.op = "Invoke" /\ ret.called = 1)
        => /\ ret.pan.kind = "none"
           /\ LET outs == CallbackOuts(ret.arg.f)
                  results == CallbackResults(ret.arg.f)
                  n == Len(outs)
              IN  IF n > 0 /\ outs[n] = "error" /\ ~results[n].isNil
                  THEN ret.err = results[n]
                  ELSE ret.err = NilErr

\* a callback's error has been returned by Invoke
C10_Witness ==
    /\ ret.op = "Invoke" /\ ret.called = 1
    /\ ret.err = boom
    /\ Len(ret.args) = 1

----------------------------------------------------------------------------
(* C11 .. C20 *)

\* the decimal text of a parameter position
Itoa(n) == <<CASE n = 0 -> "0" [] n = 1 -> "1" [] n = 2 -> "2" [] OTHER -> "3">>

\* the last Invoke was given a function some parameter type of which had
\* no entry, and every parameter before the first such one was resolved
ReachedMissing ==
    /\ ret.op = "Invoke" /\ ret.missing > 0
    /\ ret.pan.kind = "none"
    /\ Len(ret.args) = ret.missing - 1

\* C11 as stated: Invoke of a function with a parameter type that has no
\* entry never calls the function, stops at the first such parameter and,
\* having reached it, returns an error that names the parameter's type and
\* its position (counted from 0 or from 1).
C11_MissingParamPosition ==
    (ret.op = "Invoke" /\ ret.missing > 0)
        => /\ ret.called = 0
           /\ Len(ret.args) < ret.missing
           /\ ReachedMissing =>
                 /\ ~ret.err.isNil
                 /\ HasSub(ret.err.msg, TypeString(Params(ret.arg.f)[ret.missing]))
                 /\ \/ HasSub(ret.err.msg, Itoa(ret.missing - 1))
                    \/ HasSub(ret.err.msg, Itoa(ret.missing))

\* C11, amended: Invoke of a function with a parameter type that has no
\* entry never calls the function and never succeeds, resolves no
\* parameter from the first such one on and, having reached it, returns
\* the error "no dependency found for parameter type <type>", which names
\* the parameter's type and carries no position.
C11_MissingParam ==
    (ret.op = "Invoke" /\ ret.missing > 0)
        => /\ ret.called = 0
           /\ ~RetOk
           /\ Len(ret.args) < ret.missing
           /\ Len(ret.sel) < ret.missing
           /\ ReachedMissing =>
                 /\ ret.err = Errorf(NoParamFormat,
                                     <<TypeString(Params(ret.arg.f)[ret.missing])>>)
                 /\ HasSub(ret.err.msg, TypeString(Params(ret.arg.f)[ret.missing]))
                 /\ HasSub(ret.err.msg, <<" parameter type ">>)
                 /\ \A n \in 0..3 : ~HasSub(ret.err.msg, Itoa(n))

\* the second parameter is the missing one, after the first was resolved
\* by calling its factory
C11_Witness ==
    /\ ReachedMissing /\ ret.missing = 2
    /\ ret.log # <<>>
    /\ ~ret.err.isNil

\* C12: Invoke never aborts. Whatever the registry holds and whatever it
\* is given, Invoke either calls the function, with one argument per
\* parameter, each assignable to the parameter's declared type, or returns
\* an error without calling it; it raises no panic.
C12_InvokeNeverAborts ==
    ret.op = "Invoke"
        => /\ ret.pan.kind = "none"
           /\ ret.called = 1 =>
                 /\ Len(ret.args) = Len(Params(ret.arg.f))
                 /\ \A i \in 1..Len(ret.args) :
                       AssignableTo(ret.args[i], Params(ret.arg.f)[i])
           /\ ret.called = 0 => ~ret.err.isNil

\* C13: generic resolution not found. For[T].Resolve, ResolveByType[T] and
\* Get[T], when the type registry has no entry under T and none with T's
\* bare name, return the zero value of T and an error containing
\* "no dependency found for type", call nothing and leave the registry
\* unchanged.
C13_GenericNotFound ==
    (ret.op \in GenericOps /\ ~ret.matched)
        => /\ ret.pan.kind = "none"
           /\ ret.val = Zero(ret.type)
           /\ ~ret.err.isNil
           /\ HasSub(ret.err.msg, <<"no dependency found for type">>)
           /\ HasSub(ret.err.msg, TypeString(ret.type))
           /\ ret.log = <<>>
           /\ ~ret.changed

\* a type without an entry is asked for while another type is registered
C13_Witness ==
    /\ ret.op \in GenericOps /\ ~ret.matched
    /\ DOMAIN typeRegistry # {}
    /\ ~ret.err.isNil

\* C14: generic resolution type mismatch. When For[T].Resolve (and its
\* shortcuts) finds an entry, under T or under a key with T's bare name,
\* and the value that entry resolves to is not of type T, it returns the
\* zero value of T and the type-mismatch error; a value it returns without
\* error is always of type T.
C14_TypeMismatch ==
    (ret.op \in GenericOps /\ ret.matched /\ ret.pan.kind = "none")
        => /\ Len(ret.sel) = 1
           /\ ret.err.isNil => AssignableTo(ret.val, ret.type)
           /\ ~AssignableTo(typeRegistry[ret.sel[1]], ret.type) =>
                 /\ ret.val = Zero(ret.type)
                 /\ ret.err = Errorf(MismatchFormat, <<TypeString(ret.type)>>)
                 /\ HasSub(ret.err.msg, <<"type mismatch">>)

\* a bare-name match called a factory whose product is not of the type
\* asked for
C14_Witness ==
    /\ ret.op \in GenericOps /\ ret.matched
    /\ ret.log # <<>>
    /\ ret.sel # <<ret.type>>
    /\ HasSub(ret.err.msg, <<"type mismatch">>)

\* what a caller sees of an outcome: whether it panicked, its error, the
\* value it returned when it succeeded, and the registry it left
Visible(o) ==
    [pan |-> o.pan.kind, err |-> o.err.isNil,
     val |-> IF Succeeded(o) THEN o.val ELSE NilVal, st |-> o.st]

\* C15: bare-name fallback equivalence. In every reachable registry in
\* which exactly one entry K has bare name b, ResolveByTypeName(b) and the
\* resolution of K by its exact type (For[K].Resolve) return the same value
\* and leave the same registry, and performed one after the other, in
\* either order, the second returns the identical value the first returned
\* and changes nothing.
C15_FallbackEquivalence ==
    \A b \in BareNames : \A K \in Types :
        KeysNamed(Cur, b) = {K}
            => /\ {Visible(o) : o \in ResolveByTypeName(Cur, nextId, b)}
                    = {Visible(o) : o \in TypeResolve(Cur, nextId, K)}
               /\ \A o1 \in ResolveByTypeName(Cur, nextId, b) :
                     Succeeded(o1) =>
                        \A o2 \in TypeResolve(o1.st, o1.next, K) :
                           Succeeded(o2) /\ o2.val = o1.val /\ o2.st = o1.st
               /\ \A o1 \in TypeResolve(Cur, nextId, K) :
                     Succeeded(o1) =>
                        \A o2 \in ResolveByTypeName(o1.st, o1.next, b) :
                           Succeeded(o2) /\ o2.val = o1.val /\ o2.st = o1.st

\* the last call was ResolveInto with a non-nil pointer to a location of
\* type E, an entry matched, and the value the entry resolved to is
\* assignable to E
IntoResolved ==
    /\ ret.op = "ResolveInto" /\ ret.arg.k = "ptr" /\ ~ret.arg.isNil
    /\ ret.pan.kind = "none"
    /\ Len(ret.sel) = 1
    /\ AssignableTo(typeRegistry[ret.sel[1]], ret.arg.elem)

\* C16: ResolveInto success. Given a non-nil pointer to a location of type
\* E for which an entry matches and resolves to a value assignable to E,
\* ResolveInto writes that value into the location and returns nil; and a
\* later resolution of E by For[E].Resolve / MustResolve (and so by their
\* shortcuts) or by Invoke of a function with one parameter of type E
\* yields the identical value.
C16_ResolveIntoSuccess ==
    IntoResolved
        => /\ ret.err.isNil
           /\ ret.wrote
           /\ ret.written = typeRegistry[ret.sel[1]]
           /\ \A o \in TypeResolve(Cur, nextId, ret.arg.elem) :
                 Succeeded(o) /\ o.val = ret.written
           /\ \A o \in TypeMustResolve(Cur, nextId, ret.arg.elem) :
                 Succeeded(o) /\ o.val = ret.written
           /\ \A cb \in Callbacks :
                 Params(cb) = <<ret.arg.elem>> =>
                    \A o \in Invoke(Cur, nextId, Callback(cb)) :
                       o.called = 1 /\ o.args = <<ret.written>>

\* C17: ResolveInto misuse. A nil target yields the error "target is
\* nil"; a target that is not a pointer, or is a nil pointer, yields the
\* error "target must be a non-nil pointer"; in both cases nothing is
\* called, nothing is written and the registry is unchanged.
C17_ResolveIntoMisuse ==
    (ret.op = "ResolveInto" /\ (ret.arg = NilVal \/ ret.arg.k # "ptr" \/ ret.arg.isNil))
        => /\ ret.pan.kind = "none"
           /\ ret.err = (IF ret.arg = NilVal THEN Errorf(TargetNilFormat, <<>>)
                                             ELSE Errorf(TargetNotPtrFormat, <<>>))
           /\ ret.arg = NilVal => HasSub(ret.err.msg, <<"target is nil">>)
           /\ ret.arg # NilVal => HasSub(ret.err.msg, <<"target must be a non-nil pointer">>)
           /\ ret.log = <<>> /\ ret.sel = <<>>
           /\ ~ret.wrote
           /\ ~ret.changed

\* a nil pointer is refused while a factory for its element type is
\* registered and still uncalled
C17_Witness ==
    /\ ret.op = "ResolveInto" /\ ret.arg = NilPtrTo("PD")
    /\ ~ret.err.isNil
    /\ "PD" \in DOMAIN typeRegistry /\ IsFunc(typeRegistry["PD"])

\* C18: Invoke misuse. Invoke(nil) returns the error "fn is nil" and
\* Invoke of a value that is not a function returns the error "fn must be
\* a function"; in both cases nothing is resolved, nothing is called and
\* the registry is unchanged.
C18_InvokeMisuse ==
    (ret.op = "Invoke" /\ ret.arg.k # "cb")
        => /\ ret.pan.kind = "none"
           /\ ret.err = (IF ret.arg = NilVal THEN Errorf(FnNilFormat, <<>>)
                                             ELSE Errorf(FnNotFuncFormat, <<>>))
           /\ ret.arg = NilVal => HasSub(ret.err.msg, <<"fn is nil">>)
           /\ ret.arg # NilVal => HasSub(ret.err.msg, <<"fn must be a function">>)
           /\ ret.called = 0 /\ ret.args = <<>>
           /\ ret.log = <<>> /\ ret.sel = <<>>
           /\ ~ret.changed

\* a value that is not a function is refused while a factory is
\* registered and still uncalled
C18_Witness ==
    /\ ret.op = "Invoke" /\ ret.arg = db1
    /\ ~ret.err.isNil
    /\ \E k \in DOMAIN typeRegistry : IsFunc(typeRegistry[k])

\* the dependency the last call, an InjectByName that returned, filed under
\* its name is held as an instance and Resolve returns it as it is
HeldAsInstance ==
    /\ ret.name \in DOMAIN dependencies
    /\ dependencies[ret.name] = ret.arg
    /\ \A o \in Resolve(Cur, nextId, ret.name) :
          Succeeded(o) /\ o.val = ret.arg /\ o.log = <<>> /\ o.st = Cur

\* C19 as stated: InjectByName stores the dependency as a factory exactly
\* when it is a function with no parameters and one result; every other
\* dependency, functions of another shape included, is stored as an
\* instance and returned as it is by Resolve.
C19_ShapeClassification ==
    (ret.op = "InjectByName" /\ ret.pan.kind = "none")
        => IF IsFactory(ret.arg)
           THEN ret.name \in DOMAIN factories /\ factories[ret.name] = ret.arg
           ELSE HeldAsInstance

\* C19, amended: InjectByName stores the dependency as a factory exactly
\* when it is a function, whatever its parameters and results, touching
\* only the factories map; every other non-nil dependency is stored as an
\* instance, touching only the dependencies map, and is returned as it is
\* by Resolve; a nil dependency aborts and stores nothing.
C19_NameClassification ==
    [][ (ret'.op = "InjectByName" /\ steps' = steps + 1)
          => IF ret'.arg = NilVal
             THEN ret'.pan.kind = "runtime" /\ Cur' = Cur
             ELSE /\ ret'.pan.kind = "none"
                  /\ typeRegistry' = typeRegistry
                  /\ IF IsFunc(ret'.arg)
                     THEN /\ factories' = Put(factories, ret'.name, ret'.arg)
                          /\ dependencies' = dependencies
                     ELSE /\ dependencies' = Put(dependencies, ret'.name, ret'.arg)
                          /\ factories' = factories
                          /\ HeldAsInstance' ]_vars

\* a function that declares a parameter has been stored as a factory, not
\* as an instance
C19_Witness ==
    /\ ret.op = "InjectByName" /\ ret.arg = Fn("NewUserRepository")
    /\ factories[ret.name] = ret.arg
    /\ ret.name \notin DOMAIN dependencies

\* C20: type registration key. Inject(dependency), for any non-nil
\* dependency, adds or overwrites exactly one entry of the type registry
\* and leaves the others alone; the entry's key is the declared result type
\* when the dependency is a function with no parameters and one result,
\* and the dependency's own type in every other case, functions of another
\* shape included.
C20_TypeKey ==
    [][ (ret'.op = "Inject" /\ steps' = steps + 1 /\ ret'.arg # NilVal)
          => /\ ret'.pan.kind = "none"
             /\ typeRegistry' =
                   Put(typeRegistry,
                       IF IsFactory(ret'.arg) THEN OutTypes(ret'.arg.f)[1]
                                              ELSE TypeOf(ret'.arg),
                       ret'.arg) ]_vars

----------------------------------------------------------------------------
(* C21 .. C30 *)

\* d is a function that returns nothing
IsMalformed(d) == IsFunc(d) /\ OutTypes(d.f) = <<>>

\* C21: malformed factory. Resolving a registered function that returns
\* nothing fails with the error "factory function returned no values" and
\* not with a not-found error: Resolve(name) when such a function is the
\* latest registration under name, and a resolution by the function's type
\* once Inject has been given it.
C21_MalformedFactory ==
    /\ (ret.op = "Resolve" /\ ret.name \in DOMAIN lastName
            /\ IsMalformed(lastName[ret.name]))
          => /\ ret.pan.kind = "none"
             /\ ret.err = Errorf(NoValuesFormat, <<>>)
             /\ ~HasSub(ret.err.msg, <<"not found">>)
    /\ (ret.op = "Inject" /\ IsMalformed(ret.arg))
          => \A o \in TypeResolve(Cur, nextId, TypeOf(ret.arg)) :
                /\ o.pan.kind = "none"
                /\ o.err = Errorf(NoValuesFormat, <<>>)

\* the closures whose body resolves another entry
Nesting == {"repoByName", "repoByType"}

\* the last call invoked a closure for the entry it asked for, and the
\* closure returned its product
Materialised ==
    /\ ret.op \in NameOps \cup {"For.Resolve", "For.MustResolve"}
    /\ RetOk
    /\ ret.log # <<>>
    /\ ret.log[1].f \in Nesting

\* what the closure f resolves is a key of the registry it resolves from
\* (a name that reached the closure is one; a type may have been matched
\* through another key with its bare name)
ResolvesKey(f) == f = "repoByName" \/ "PD" \in DOMAIN typeRegistry

\* the direct resolutions of the key the closure f resolves
DirectB(f) ==
    IF f = "repoByName" THEN Resolve(Cur, nextId, DatabaseName)
    ELSE TypeResolve(Cur, nextId, "PD")

\* the history of the key the closure f resolves, since its registration
HistoryB(f) ==
    IF f = "repoByName"
    THEN (IF DatabaseName \in DOMAIN sinceName THEN sinceName[DatabaseName]
          ELSE FreshHistory)
    ELSE (IF "PD" \in DOMAIN sinceType THEN sinceType["PD"] ELSE FreshHistory)

\* C22: nested resolution. When a resolution of A invokes A's factory and
\* the factory's body resolves key B, then afterwards A's slot holds the
\* product that was returned, B is cached (a direct resolution of B invokes
\* nothing), every direct resolution of B after A yields the very instance
\* held in A's product, and so did the direct resolutions of B made before A.
C22_NestedResolution ==
    (Materialised /\ ResolvesKey(ret.log[1].f)) =>
       /\ IF ret.log[1].reg = "name"
          THEN /\ ret.log[1].name \in DOMAIN dependencies
               /\ dependencies[ret.log[1].name] = ret.val
          ELSE /\ ret.log[1].type \in DOMAIN typeRegistry
               /\ typeRegistry[ret.log[1].type] = ret.val
       /\ \A o \in DirectB(ret.log[1].f) :
             /\ Succeeded(o)
             /\ o.log = <<>>
             /\ o.val = ret.val.DB
       /\ HistoryB(ret.log[1].f).got =>
             /\ HistoryB(ret.log[1].f).first = ret.val.DB
             /\ HistoryB(ret.log[1].f).same

\* a resolution of A materialised B from inside A's factory
C22_Witness ==
    /\ Materialised
    /\ ResolvesKey(ret.log[1].f)
    /\ Len(ret.log) = 2
    /\ ret.val.DB.by = ret.log[2].f

\* what a caller of Resolve(n) can observe from registry st: the returned
\* value, error or panic, the functions invoked, and the name maps left
NameViews(st, n) ==
    {[val |-> o.val, err |-> o.err, pan |-> o.pan, log |-> o.log,
      dependencies |-> o.st.dependencies, factories |-> o.st.factories] :
        o \in Resolve(st, nextId, n)}

\* what a caller of For[t].Resolve can observe from registry st
TypeViews(st, t) ==
    {[val |-> o.val, err |-> o.err, pan |-> o.pan, log |-> o.log,
      typeRegistry |-> o.st.typeRegistry] : o \in TypeResolve(st, nextId, t)}

\* C23 (as stated): registry independence. Inject leaves dependencies and
\* factories unchanged; InjectByName, Resolve and MustResolve leave the type
\* registry unchanged; no Resolve(name) observes a type registration and no
\* type resolution observes a name registration.
C23_RegistryIndependence ==
    [][ /\ ret'.op = "Inject" =>
              /\ dependencies' = dependencies /\ factories' = factories
              /\ \A n \in Names : NameViews(Cur', n) = NameViews(Cur, n)
        /\ ret'.op \in {"InjectByName", "Resolve", "MustResolve"} =>
              typeRegistry' = typeRegistry
        /\ ret'.op = "InjectByName" =>
              \A t \in Types : TypeViews(Cur', t) = TypeViews(Cur, t)
      ]_vars

\* C23 (amended): Inject leaves dependencies and factories unchanged and
\* InjectByName leaves the type registry unchanged; Resolve and MustResolve
\* change a slot of the type registry only where a type resolution made from
\* inside the invoked factory cached its product; a type registration is
\* observed by Resolve(name) only when a registered name factory resolves by
\* type, and a name registration by a type resolution only when a registered
\* type factory resolves by name.
C23_IndependenceOfTheMaps ==
    [][ /\ ret'.op = "Inject" =>
              /\ dependencies' = dependencies /\ factories' = factories
              /\ (\A m \in DOMAIN factories : factories[m] # Fn("repoByType"))
                    => \A n \in Names : NameViews(Cur', n) = NameViews(Cur, n)
        /\ ret'.op = "InjectByName" =>
              /\ typeRegistry' = typeRegistry
              /\ (\A k \in DOMAIN typeRegistry : typeRegistry[k] # Fn("repoByName"))
                    => \A t \in Types : TypeViews(Cur', t) = TypeViews(Cur, t)
        /\ ret'.op \in {"Resolve", "MustResolve"} =>
              /\ DOMAIN typeRegistry' = DOMAIN typeRegistry
              /\ \A k \in DOMAIN typeRegistry :
                    typeRegistry'[k] # typeRegistry[k] =>
                       \E i \in 2..Len(ret'.log) :
                          /\ ret'.log[i].reg = "type"
                          /\ ret'.log[i].type = k
                          /\ ComesFrom(typeRegistry'[k], typeRegistry[k])
      ]_vars

\* a Resolve(name) whose factory resolved by type, and so cached a product
\* in the type registry
C23_Witness ==
    /\ ret.op \in NameOps
    /\ RetOk
    /\ \E i \in 2..Len(ret.log) : ret.log[i].reg = "type"

\* what the caller of a generic resolution gets: the value, the error, the
\* panic, and the registry left
Results(outcomes) ==
    {[val |-> o.val, err |-> o.err, pan |-> o.pan, st |-> o.st] : o \in outcomes}

\* C24: shortcut equivalence. From every registry state and for every type
\* T, Get[T], ResolveByType[T] and For[T].Resolve have the same possible
\* results (value, error, resulting registry), and Must[T],
\* MustResolveByType[T] and For[T].MustResolve have the same possible results
\* (value, panic, resulting registry).
C24_ShortcutEquivalence ==
    \A T \in Types :
       /\ Results(Get(Cur, nextId, T)) = Results(TypeResolve(Cur, nextId, T))
       /\ Results(ResolveByType(Cur, nextId, T)) = Results(TypeResolve(Cur, nextId, T))
       /\ Results(Must(Cur, nextId, T)) = Results(TypeMustResolve(Cur, nextId, T))
       /\ Results(MustResolveByType(Cur, nextId, T))
             = Results(TypeMustResolve(Cur, nextId, T))

\* a registry from which one shortcut materialises a factory and another
\* aborts on a type that is not registered
C24_Witness ==
    /\ \E T \in Types : \E o \in Get(Cur, nextId, T) : Succeeded(o) /\ o.st # Cur
    /\ \E T \in Types : \E o \in Must(Cur, nextId, T) : o.pan.kind = "error"
    /\ ret.op \in {"Get", "Must"}

\* goroutines t and u have both returned from a resolution in which each
\* called the factory of the same entry and got an object from it
BothInvoked(t, u) ==
    /\ t # u
    /\ threads[t].pc = "done" /\ threads[u].pc = "done"
    /\ threads[t].invoked /\ threads[u].invoked
    /\ threads[t].op = threads[u].op
    /\ IF threads[t].op = "Resolve" THEN threads[t].key = threads[u].key
       ELSE threads[t].slot = threads[u].slot
    /\ threads[t].f = threads[u].f
    /\ threads[t].val.k = "obj" /\ threads[u].val.k = "obj"

\* C25: concurrent first resolution. Two goroutines that both pass the
\* cache check of the same entry before either has stored a product each
\* call the factory and each return the product of their own call: the
\* factory has then been invoked at least twice and the two callers hold
\* different instances. Nothing in the container excludes that interleaving.
C25_NoAtMostOnce ==
    \A t, u \in Threads :
       BothInvoked(t, u) =>
          /\ calls[threads[t].f] >= 2
          /\ threads[t].val # threads[u].val
          /\ threads[t].val = threads[t].instance
          /\ threads[u].val = threads[u].instance

\* one factory registered once, invoked twice by two concurrent
\* resolutions of its entry, whose callers hold different instances
C25_Witness ==
    /\ steps = 1
    /\ ~fatal
    /\ \E t, u \in Threads :
          /\ BothInvoked(t, u)
          /\ calls[threads[t].f] = 2
          /\ threads[t].val # threads[u].val

\* the last call was a Resolve or MustResolve that called the factory of
\* the name and returned its product
FactoryMaterialised ==
    /\ ret.op \in NameOps
    /\ RetOk
    /\ ret.log # <<>>

HoldsProduct(k) == k \in DOMAIN lastType /\ typeRegistry[k] # lastType[k]

\* C27: monotonic Factory->Instance transition in the type registry. A
\* resolution changes a slot only from the registered factory to a value
\* that factory produced; once a slot holds a produced value (of whatever
\* kind), no resolution invokes anything for the slot or changes it again.
C27_MonotonicTransition ==
    [][ ret'.op \in TypeOps =>
          \A k \in DOMAIN typeRegistry :
             /\ HoldsProduct(k) =>
                   /\ typeRegistry'[k] = typeRegistry[k]
                   /\ \A i \in 1..Len(ret'.log) :
                         ~(ret'.log[i].reg = "type" /\ ret'.log[i].type = k)
             /\ (~HoldsProduct(k) /\ typeRegistry'[k] # typeRegistry[k]) =>
                   /\ IsFunc(typeRegistry[k])
                   /\ ProducedBy(typeRegistry'[k], typeRegistry[k].f)
      ]_vars

\* the types the call observed as r asked the type registry for, in the
\* order it asked: the type parameter, the target's element type, or the
\* callback's parameter types
Requested(r) ==
    CASE r.op \in GenericOps \cup GenericMustOps -> <<r.type>>
      [] r.op = "ResolveInto" ->
            IF r.arg.k = "ptr" /\ ~r.arg.isNil THEN <<r.arg.elem>> ELSE <<>>
      [] r.op = "Invoke" -> IF r.arg.k = "cb" THEN Params(r.arg.f) ELSE <<>>
      [] OTHER -> <<>>

\* C28: exact match precedence. In For[T].Resolve and its shortcuts,
\* ResolveInto and Invoke, a requested type that is a key of the type
\* registry is resolved from the entry under that very key, even when other
\* keys share its bare name; an entry under another key is selected only
\* when the requested type is not a key; and a factory is invoked only for
\* a selected entry.
C28_ExactMatchFirst ==
    [][ LET r == ret'
            req == Requested(r)
        IN  r.op \in GenericOps \cup GenericMustOps \cup {"ResolveInto", "Invoke"} =>
            /\ Len(r.sel) <= Len(req)
            /\ \A i \in 1..Len(r.sel) :
                  /\ req[i] \in DOMAIN typeRegistry => r.sel[i] = req[i]
                  /\ r.sel[i] # req[i] =>
                        /\ req[i] \notin DOMAIN typeRegistry
                        /\ getTypeName(r.sel[i]) = getTypeName(req[i])
            /\ (req # <<>> /\ req[1] \in DOMAIN typeRegistry) => r.sel # <<>>
            /\ \A j \in 1..Len(r.log) :
                  \E i \in 1..Len(r.sel) :
                     r.log[j].reg = "type" /\ r.log[j].type = r.sel[i]
      ]_vars

\* a resolution of a type that is a key while another key has its bare name
C28_Witness ==
    /\ ret.op \in GenericOps \cup GenericMustOps \cup {"ResolveInto", "Invoke"}
    /\ RetOk
    /\ \E i \in 1..Len(ret.sel) :
          /\ ret.sel[i] = Requested(ret)[i]
          /\ Cardinality(KeysNamed(Cur, getTypeName(ret.sel[i]))) >= 2
          /\ IsFunc(lastType[ret.sel[i]])

\* the text of s after its last ".", the whole of s when it has none
AfterLastDot(s) ==
    CHOOSE r \in {SubSeq(s, k + 1, Len(s)) : k \in 0..Len(s)} :
       /\ \A i \in 1..Len(r) : r[i] # "."
       /\ Len(r) = Len(s) \/ s[Len(s) - Len(r)] = "."

\* C29: bare-name extraction. getTypeName maps a display string to the text
\* after its last "." (the whole string when there is no "."), with one
\* leading "*" removed if present; "a.D" and "*a.D" both map to "D"; and
\* applying it leaves the registry as it was.
C29_BareName ==
    named.applied =>
       /\ LET r == AfterLastDot(named.shown)
          IN  named.bare = IF r # <<>> /\ r[1] = "*" THEN SubSeq(r, 2, Len(r)) ELSE r
       /\ named.shown \in {<<"a", ".", "D">>, <<"*", "a", ".", "D">>}
             => named.bare = <<"D">>
       /\ Cur = NewInjector

\* getTypeName applied to the display string of a pointer type
C29_Witness ==
    /\ named.applied
    /\ named.shown = <<"*", "a", ".", "D">>
    /\ named.bare = <<"D">>

\* C30: ResolveByTypeName(name) returns the error "no dependency found for
\* type name <name>" exactly when no key of the type registry has the bare
\* name; otherwise it resolves one entry, whose key has that bare name: no
\* other slot changes, at most one function is invoked, for that entry, and
\* a value returned is the one the entry resolved to.
C30_ResolveByTypeName ==
    [][ ret'.op = "ResolveByTypeName" =>
          /\ (ret'.err = Errorf(NoTypeNameFormat, <<ret'.name>>))
                <=> (KeysNamed(Cur, ret'.name) = {})
          /\ KeysNamed(Cur, ret'.name) = {} =>
                /\ ret'.pan.kind = "none" /\ ret'.log = <<>> /\ ret'.sel = <<>>
                /\ Cur' = Cur
          /\ KeysNamed(Cur, ret'.name) # {} =>
                /\ Len(ret'.sel) = 1
                /\ ret'.sel[1] \in DOMAIN typeRegistry
                /\ getTypeName(ret'.sel[1]) = ret'.name
                /\ Len(ret'.log) <= 1
                /\ \A i \in 1..Len(ret'.log) :
                      /\ ret'.log[i].type = ret'.sel[1]
                      /\ typeRegistry[ret'.sel[1]] = Fn(ret'.log[i].f)
                /\ \A k \in DOMAIN typeRegistry :
                      k # ret'.sel[1] => typeRegistry'[k] = typeRegistry[k]
                /\ DOMAIN typeRegistry' = DOMAIN typeRegistry
                /\ (ret'.pan.kind = "none" /\ ret'.err.isNil) =>
                      ret'.val = typeRegistry'[ret'.sel[1]]
      ]_vars

\* a ResolveByTypeName that invoked a factory while two keys had the name
C30_Witness ==
    /\ ret.op = "ResolveByTypeName"
    /\ RetOk
    /\ ret.log # <<>>
    /\ Cardinality(KeysNamed(Cur, ret.name)) >= 2

\* C31: strict variant validation. Inject(name, source) of the validating
\* Injector returns the name-cannot-be-empty error when name is empty,
\* whatever the source; otherwise the source-cannot-be-nil error when source
\* is nil; otherwise nil.
C31_StrictValidation ==
    strict.op = "Inject" =>
       /\ strict.name = <<>> =>
             strict.err.msg = <<"injector: name cannot be empty">> /\ ~strict.err.isNil
       /\ (strict.name # <<>> /\ strict.source = NilVal) =>
             strict.err.msg = <<"injector: source cannot be nil">> /\ ~strict.err.isNil
       /\ (strict.name # <<>> /\ strict.source # NilVal) => strict.err.isNil

\* Inject with an empty name and a nil source: the name error wins
C31_Witness ==
    /\ strict.op = "Inject"
    /\ strict.name = <<>>
    /\ strict.source = NilVal
    /\ strict.err = errInjectorNameCannotBeEmpty

\* C32: the strict variant stores nothing. After any sequence of Inject
\* calls the dependencies map is as New() left it, and Get(name) returns nil
\* with the error "dependency <name> not found" for every name, names
\* injected successfully included.
C32_StrictStoresNothing ==
    /\ strict.dependencies = StrictNew.dependencies
    /\ \A n \in StrictNames :
          /\ StrictGet(strict.dependencies, n).val = NilVal
          /\ StrictGet(strict.dependencies, n).err.msg
                = <<"dependency ">> \o n \o <<" ", "not found">>
          /\ ~StrictGet(strict.dependencies, n).err.isNil
    /\ strict.op = "Get" =>
          /\ strict.val = NilVal
          /\ ~strict.err.isNil
          /\ strict.err.msg = <<"dependency ">> \o strict.name \o <<" ", "not found">>

\* Get of a name that an earlier Inject accepted
C32_Witness ==
    /\ strict.op = "Get"
    /\ strict.name \in strict.injected
    /\ ~strict.err.isNil

\* C33: key-set preservation. A resolution (Resolve, MustResolve,
\* For[T].Resolve and its shortcuts, ResolveByTypeName, ResolveInto, Invoke)
\* leaves the keys of the type registry and of factories as they were; a
\* slot of the type registry that it changes is one whose entry it invoked
\* (with a bare-name fallback, the matched key, never the requested type); it
\* removes no key of dependencies, and a key it adds to dependencies was
\* already a key of factories.
C33_KeySetPreserved ==
    [][ ret'.op \in TypeOps \cup NameOps =>
          /\ DOMAIN typeRegistry' = DOMAIN typeRegistry
          /\ DOMAIN factories' = DOMAIN factories
          /\ DOMAIN dependencies \subseteq DOMAIN dependencies'
          /\ (DOMAIN dependencies') \ (DOMAIN dependencies) \subseteq DOMAIN factories
          /\ \A k \in DOMAIN typeRegistry :
                typeRegistry'[k] # typeRegistry[k] =>
                   \E i \in 1..Len(ret'.log) :
                      ret'.log[i].reg = "type" /\ ret'.log[i].type = k
      ]_vars

\* a generic resolution that fell back to another key with the bare name
\* and cached the factory's product there
C33_Witness ==
    /\ ret.op \in GenericOps \cup GenericMustOps
    /\ ret.log # <<>>
    /\ ret.sel # <<>>
    /\ ret.sel[1] # ret.type
    /\ ret.type \notin DOMAIN typeRegistry
    /\ typeRegistry[ret.sel[1]] # lastType[ret.sel[1]]

MismatchAfterFactory ==
    /\ ret.op \in GenericOps
    /\ ret.err = Errorf(MismatchFormat, <<TypeString(ret.type)>>)
    /\ ret.log # <<>>

\* C35: caching precedes the type check. When For[T].Resolve reaches a
\* factory entry and fails with the type-mismatch error, the factory has
\* been invoked exactly once, its product is cached under the matched
\* registered key, and a resolution of that registered type returns that
\* product and invokes nothing.
C35_CachedBeforeTypeCheck ==
    MismatchAfterFactory =>
       /\ Len(ret.log) = 1
       /\ Len(ret.sel) = 1
       /\ ret.log[1].type = ret.sel[1]
       /\ ProducedBy(typeRegistry[ret.sel[1]], ret.log[1].f)
       /\ \A o \in TypeResolve(Cur, nextId, ret.sel[1]) :
             /\ Succeeded(o)
             /\ o.val = typeRegistry[ret.sel[1]]
             /\ o.log = <<>>

\* C36: ResolveInto writes only on success. On every error return (and on
\* a panic) the target location keeps the value it had before the call;
\* the location is written on the nil return and only there, with a value
\* assignable to the target's element type.
C36_WritesOnlyOnSuccess ==
    ret.op = "ResolveInto" =>
       /\ ret.wrote <=> (ret.err.isNil /\ ret.pan.kind = "none")
       /\ ~ret.wrote => ret.written = NilVal
       /\ ret.wrote =>
             /\ ret.arg.k = "ptr" /\ ~ret.arg.isNil
             /\ AssignableTo(ret.written, ret.arg.elem)

\* a factory was invoked and its product cached, the product is not
\* assignable to the target, and the target was left alone
C36_Witness ==
    /\ ret.op = "ResolveInto"
    /\ ret.log # <<>>
    /\ ret.err = Errorf(NotAssignableFormat,
                        <<TypeString(TypeOf(typeRegistry[ret.sel[1]])),
                          TypeString(ret.arg.elem)>>)
    /\ ~ret.wrote
    /\ ret.written = NilVal

\* a key of the registry: a name of the name maps or a type of typeRegistry
NameKey(n) == [reg |-> "name", name |-> n, type |-> ""]
TypeKey(t) == [reg |-> "type", name |-> <<>>, type |-> t]

\* the keys of registry st that hold a function, and the function each holds
FactoryKeys(st) ==
    {NameKey(n) : n \in DOMAIN st.factories}
      \cup {TypeKey(t) : t \in {r \in DOMAIN st.typeRegistry : IsFunc(st.typeRegistry[r])}}
FactoryAt(st, k) ==
    IF k.reg = "name" THEN st.factories[k.name].f ELSE st.typeRegistry[k.type].f

\* the keys the body of function f resolves in registry st
ResolvedInside(f, st) ==
    CASE f = "repoByName" -> {NameKey(DatabaseName)}
      [] f = "repoByType" ->
            {TypeKey(t) : t \in IF "PD" \in DOMAIN st.typeRegistry THEN {"PD"}
                                 ELSE KeysNamed(st, getTypeName("PD"))}
      [] OTHER -> {}

RECURSIVE NeededFrom(_, _, _)
\* the keys needed, directly or through further factories, once the keys
\* ks are resolved: n rounds of following the factories' bodies
NeededFrom(st, ks, n) ==
    IF n = 0 THEN ks
    ELSE NeededFrom(st,
                    ks \cup UNION {ResolvedInside(FactoryAt(st, k), st) :
                                     k \in ks \cap FactoryKeys(st)},
                    n - 1)

\* no factory key of st is needed by its own factory
Acyclic(st) ==
    \A k \in FactoryKeys(st) :
       k \notin NeededFrom(st, ResolvedInside(FactoryAt(st, k), st),
                            Cardinality(FactoryKeys(st)))

CallRunning == run.status = "running"
CallEnded == run.status \in {"returned", "panicked"}

\* when the call has ended, every key whose factory returned during it
\* holds the product that factory returned; and when the call returned, with
\* or without an error, every factory it called has returned
EndsCached ==
    CallEnded =>
       /\ \A n \in DOMAIN run.madeByName :
             n \in DOMAIN dependencies /\ dependencies[n] = run.madeByName[n]
       /\ \A t \in DOMAIN run.madeByType :
             typeRegistry[t] = run.madeByType[t]
       /\ run.status = "returned" =>
             /\ run.enteredNames = DOMAIN run.madeByName
             /\ run.enteredTypes = DOMAIN run.madeByType

\* while the factory of a key is being called or its body is running, the
\* key has not been written: a name has no instance yet, a type key still
\* holds the function
WrittenAfterReturn ==
    \A i \in 1..Len(run.stack) :
       run.stack[i].pc \in {"call", "body"} =>
          IF ByName(run.stack[i].op)
          THEN run.stack[i].name \notin DOMAIN dependencies
          ELSE typeRegistry[run.stack[i].slot] = Fn(run.stack[i].f)

\* a call that reached the factory of a key needed by its own factory is
\* not refused and does not return: it goes on nesting until the runtime
\* stops the process
NoCycleDetected ==
    (\E n \in run.enteredNames :
        NameKey(n) \in FactoryKeys(run.before)
        /\ NameKey(n) \in NeededFrom(run.before,
                                      ResolvedInside(FactoryAt(run.before, NameKey(n)),
                                                     run.before),
                                      Cardinality(FactoryKeys(run.before))))
      => run.status \in {"running", "overflow"}

\* the call made statement by statement ends as the whole call does
SameAsWholeCall ==
    (CallEnded /\ Acyclic(run.before)) =>
       \E o \in (CASE run.op = "Resolve" -> Resolve(run.before, run.start, run.name)
                    [] run.op = "MustResolve" ->
                          MustResolve(run.before, run.start, run.name)
                    [] run.op = "For.Resolve" ->
                          TypeResolve(run.before, run.start, run.type)
                    [] run.op = "For.MustResolve" ->
                          TypeMustResolve(run.before, run.start, run.type)
                    [] run.op = "ResolveInto" ->
                          ResolveInto(run.before, run.start, run.arg)
                    [] OTHER -> Invoke(run.before, run.start, run.arg)) :
          /\ o.st = Cur /\ o.next = nextId
          /\ o.err = run.err /\ o.pan = run.pan
          /\ run.pan.kind = "none" => o.val = run.val
          /\ o.wrote = run.wrote /\ o.written = run.written
          /\ o.called = run.called

\* C37: termination of nested resolution. If no registered factory needs,
\* through the resolutions made inside factory bodies, the key it is
\* registered under, every Resolve, type resolution, ResolveInto and
\* Invoke that is running ends (it returns or panics), with the outcome of
\* the whole call; a call that has ended leaves every key whose factory
\* returned holding that factory's product, and a call that returned has
\* seen every factory it called return; a key is written only after its
\* factory has returned; and where a factory does need its own key the call
\* is not refused: it never returns.
C37_NestedTermination ==
    /\ (CallRunning /\ Acyclic(Cur)) ~> CallEnded
    /\ [](SameAsWholeCall /\ EndsCached /\ WrittenAfterReturn /\ NoCycleDetected)

\* a call whose factory resolved another factory entry from its body has
\* returned, both entries cached
C37_Witness ==
    /\ run.status = "returned" /\ run.err.isNil
    /\ Acyclic(run.before)
    /\ run.deepest >= 2
    /\ Cardinality(run.enteredNames) + Cardinality(run.enteredTypes) >= 2

\* the runtime has stopped a call whose factory resolves its own name
StackExhausted ==
    /\ run.status = "overflow"
    /\ Len(run.stack) = MaxDepth
    /\ \A i \in 1..Len(run.stack) : run.stack[i].pc = (IF i = Len(run.stack) THEN "call" ELSE "body")

\* the names and the type keys function f was most recently registered under
NamesOf(f) == {n \in DOMAIN lastName : lastName[n] = Fn(f)}
TypesOf(f) == {t \in DOMAIN lastType : lastType[t] = Fn(f)}

\* each key a factory is registered under holds the factory or, once
\* resolved, a product of that factory, and two keys of one factory hold
\* different products
PerKeySingleton ==
    \A f \in FuncNames :
       IsFactory(Fn(f)) =>
          /\ \A n \in NamesOf(f) :
                n \in DOMAIN dependencies => ProducedBy(dependencies[n], f)
          /\ \A t \in TypesOf(f) :
                typeRegistry[t] = Fn(f) \/ ProducedBy(typeRegistry[t], f)
          /\ \A n \in NamesOf(f), m \in NamesOf(f) :
                (n # m /\ n \in DOMAIN dependencies /\ m \in DOMAIN dependencies)
                   => dependencies[n] # dependencies[m]
          /\ \A n \in NamesOf(f), t \in TypesOf(f) :
                (n \in DOMAIN dependencies /\ typeRegistry[t] # Fn(f))
                   => dependencies[n] # typeRegistry[t]

\* a call invokes at most one function for a key that still holds its
\* factory and none for a key that holds a product; a resolution of a key
\* that holds a product returns that product and leaves it there
InvokedOncePerKey ==
    /\ \A n \in DOMAIN lastName :
          IsFactory(lastName[n]) =>
             /\ CallsForName(ret'.log, n)
                   <= (IF n \in DOMAIN dependencies THEN 0 ELSE 1)
             /\ (n \in DOMAIN dependencies /\ ret'.op \in NameOps /\ ret'.name = n) =>
                   /\ ret'.val = dependencies[n]
                   /\ dependencies'[n] = dependencies[n]
    /\ \A t \in DOMAIN lastType :
          IsFactory(lastType[t]) =>
             /\ Cardinality({i \in 1..Len(ret'.log) :
                                ret'.log[i].reg = "type" /\ ret'.log[i].type = t})
                   <= (IF typeRegistry[t] = lastType[t] THEN 1 ELSE 0)
             /\ (typeRegistry[t] # lastType[t] /\ ret'.op \in TypeOps) =>
                   /\ typeRegistry'[t] = typeRegistry[t]
                   /\ (ret'.sel = <<t>> /\ ret'.op \in GenericOps \cup {"ResolveByTypeName"}
                          /\ ret'.err.isNil /\ ret'.pan.kind = "none")
                        => ret'.val = typeRegistry[t]

\* a resolution leaves every entry but that of the key it resolved as it was
OnlyOwnKey ==
    /\ ret'.op \in NameOps =>
          /\ typeRegistry' = typeRegistry
          /\ factories' = factories
          /\ DOMAIN dependencies' \subseteq DOMAIN dependencies \cup {ret'.name}
          /\ \A n \in DOMAIN dependencies \ {ret'.name} :
                n \in DOMAIN dependencies' /\ dependencies'[n] = dependencies[n]
    /\ ret'.op \in TypeOps =>
          /\ dependencies' = dependencies
          /\ factories' = factories
          /\ DOMAIN typeRegistry' = DOMAIN typeRegistry
          /\ \A t \in DOMAIN typeRegistry :
                (\A i \in 1..Len(ret'.sel) : ret'.sel[i] # t)
                   => typeRegistry'[t] = typeRegistry[t]

\* C38: singleton caching is per registry key, not per factory function. A
\* factory registered under k distinct keys (names, or a name and its return
\* type) is invoked at most once per key, so at most k times in all; each
\* key caches and keeps returning its own product; and resolving one key
\* never populates or changes another key's entry.
C38_PerKeySingleton ==
    []PerKeySingleton /\ [][InvokedOncePerKey /\ OnlyOwnKey]_vars

====
